---------------------------- MODULE Spec2Model ----------------------------
(***************************************************************************)
(* markdown-to-adf: the inline resolver (src/src/utils/inline-parser.ts),  *)
(* the block resolver (src/src/converter/block-parser.ts), the option      *)
(* resolver (src/src/presets/index.ts) and the line-based converter        *)
(* (src/src/converter.ts), as state machines over bounded token streams.   *)
(*                                                                         *)
(* Conventions.  Sequences are 1-based: the cursor i of the code (0-based) *)
(* is i+1 here, so the loop test "i < tokens.length" reads i <= Len(..).   *)
(* A string the code inspects character by character (text, code) is a    *)
(* sequence of one-character strings; an attribute the code only tests for *)
(* presence and copies (href, title, src) is a string, "" when absent.     *)
(* Every output node is a record of one shape (Node); a field a node kind  *)
(* does not have keeps its default.  The field src is a history field: the *)
(* index of the token the node was built for (the code's getLine(token)).  *)
(***************************************************************************)
EXTENDS Naturals, Sequences, FiniteSets, TLC

VARIABLES
    \* ---- inline resolver, one parseInlineTokens call
    inlOpts,      \* [preserveLineBreaks, stripTaskCheckbox]
    inlState,     \* [nodes, marks, taskChecked]: the call's locals
    inlCount,     \* the number of tokens consumed so far
    inlLast,      \* the token consumed last (history)
    \* ---- block resolver, one BlockParser.parse call
    userOptions,  \* the caller's ConversionOptions
    tokens,       \* the token sequence handed to parse
    preset,       \* BlockParser.preset
    options,      \* BlockParser.options
    stack,        \* the call stack of parseBlockTokens/parseList/parseListItem
    warnings,     \* BlockParser.warnings
    status,       \* "idle" | "running" | "done" | "threw"
    result,       \* the nodes parse returned
    error,        \* the conversionError of a thrown error
    listLog,      \* what each parseList call returned (history)
    itemLog,      \* what each parseListItem call returned (history)
    \* ---- line-based converter, one markdownToAdf call of converter.ts
    cvOptions,    \* the caller's options and MarkdownConverter.options
    cvInput,      \* the lines of the markdown text markdownToAdf was given
    cvStack,      \* the activations of convert: [lines, i, blocks, entered]
    cvWarnings,   \* MarkdownConverter.warnings
    cvStatus,     \* "idle" | "running" | "done"
    cvDoc,        \* the content of the document markdownToAdf returned
    cvCalls       \* the earlier markdownToAdf calls of the process (history)

inlVars == <<inlOpts, inlState, inlCount, inlLast>>
blockVars == <<userOptions, tokens, preset, options, stack, warnings, status,
               result, error, listLog, itemLog>>
cvVars == <<cvOptions, cvInput, cvStack, cvWarnings, cvStatus, cvDoc, cvCalls>>
vars == <<inlOpts, inlState, inlCount, inlLast, userOptions, tokens, preset,
          options, stack, warnings, status, result, error, listLog, itemLog,
          cvOptions, cvInput, cvStack, cvWarnings, cvStatus, cvDoc, cvCalls>>

(***************************************************************************)
(* Bounds of the model.                                                    *)
(***************************************************************************)
MaxInlineLen == 4      \* inline tokens fed to one parseInlineTokens call
MaxItems == 2          \* list items of one generated list
MaxLines == 2          \* lines of the markdown text given to converter.ts
MaxCalls == 3          \* markdownToAdf calls made one after another

(***************************************************************************)
(* Marks (builders/marks.ts) and nodes (builders/nodes.ts).                *)
(***************************************************************************)
Mark(t) == [type |-> t, href |-> "", title |-> ""]
strong == Mark("strong")
em == Mark("em")
codeMark == Mark("code")
strike == Mark("strike")
\* link(href, title): the title attribute is present only when truthy.
link(href, title) == [type |-> "link", href |-> href, title |-> title]

Node(t) ==
    [type |-> t, content |-> <<>>, text |-> <<>>, marks |-> <<>>, level |-> 0,
     state |-> "", language |-> <<>>, localId |-> "", src |-> 0]

\* text(text, marks): marks is omitted when empty, rendered as <<>>.
text(value, marks) == [Node("text") EXCEPT !.text = value, !.marks = marks]
hardBreak == Node("hardBreak")
\* paragraph(content): no content field when content is empty, rendered as <<>>.
paragraph(content) == [Node("paragraph") EXCEPT !.content = content]
heading(level, content) ==
    [Node("heading") EXCEPT !.level = level, !.content = content]
bulletList(items) == [Node("bulletList") EXCEPT !.content = items]
orderedList(items) == [Node("orderedList") EXCEPT !.content = items]
listItem(content) == [Node("listItem") EXCEPT !.content = content]
\* generateLocalId(): "task-" + Date.now() + "-" + nine base-36 digits of
\* Math.random().  Neither the clock nor the random source is tied to earlier
\* calls, so a call yields any identifier; these are two of the identifiers
\* of one millisecond.
generateLocalId == {"task-0-a", "task-0-b"}
\* attrs.localId: localId || generateLocalId(), no caller passes a localId
withLocalId(node, id) == [node EXCEPT !.localId = id]
\* taskList(items) and taskItem(content, checked) before the identifier is
\* drawn; the step that calls the builder draws it.
taskList(items) == [Node("taskList") EXCEPT !.content = items]
taskItem(content, checked) ==
    [Node("taskItem") EXCEPT !.content = content,
                             !.state = IF checked THEN "DONE" ELSE "TODO"]
blockQuote(content) == [Node("blockQuote") EXCEPT !.content = content]
codeBlock(code, language) ==
    [Node("codeBlock") EXCEPT !.content = <<text(code, <<>>)>>,
                              !.language = language]
tableNode(rows) == [Node("table") EXCEPT !.content = rows]
tableRow(cells) == [Node("tableRow") EXCEPT !.content = cells]
tableHeader(content) == [Node("tableHeader") EXCEPT !.content = content]
tableCell(content) == [Node("tableCell") EXCEPT !.content = content]

(***************************************************************************)
(* Inline tokens as markdown-it hands them over.                           *)
(***************************************************************************)
ITok(t) ==
    [type |-> t, content |-> <<>>, href |-> "", title |-> "", src |-> "",
     alt |-> <<>>, isCheckbox |-> FALSE, checked |-> FALSE]
IText(s) == [ITok("text") EXCEPT !.content = s]
ICode(s) == [ITok("code_inline") EXCEPT !.content = s]
ILink(href, title) == [ITok("link_open") EXCEPT !.href = href, !.title = title]
IImage(src, content, alt) ==
    [ITok("image") EXCEPT !.src = src, !.content = content, !.alt = alt]
\* An html_inline token; isCheckbox and checked are the outcomes of the two
\* regular-expression tests parseTaskCheckbox runs on its content.
IHtml(isCheckbox, checked) ==
    [ITok("html_inline") EXCEPT !.isCheckbox = isCheckbox, !.checked = checked]

(***************************************************************************)
(* inline-parser.ts                                                        *)
(***************************************************************************)
\* parseTaskCheckbox: checked is reported only for a checkbox.
parseTaskCheckbox(tok) ==
    [isCheckbox |-> tok.isCheckbox, checked |-> tok.isCheckbox /\ tok.checked]

\* shallowEqual on the attrs of two marks: the same keys with the same values
\* (a link's title key exists only when the title is non-empty).
shallowEqual(a, b) == a.href = b.href /\ a.title = b.title

RECURSIVE MarksEqualFrom(_, _, _)
MarksEqualFrom(left, right, k) ==
    IF k > Len(left) THEN TRUE
    ELSE IF left[k].type # right[k].type THEN FALSE
    ELSE IF ~shallowEqual(left[k], right[k]) THEN FALSE
    ELSE MarksEqualFrom(left, right, k + 1)

areMarksEqual_NeverEmpty(left, right) ==
    IF Len(left) = 0 THEN FALSE
    ELSE IF Len(left) # Len(right) THEN FALSE
    ELSE MarksEqualFrom(left, right, 1)
areMarksEqual(left, right) ==
    IF Len(left) = 0 THEN Len(right) = 0
    ELSE IF Len(left) # Len(right) THEN FALSE
    ELSE MarksEqualFrom(left, right, 1)

pushText_NeverMerges(nodes, value, activeMarks) ==
    IF value = <<>> THEN nodes ELSE Append(nodes, text(value, activeMarks))


\* pushText(value, activeMarks) on the nodes built so far.
pushText(nodes, value, activeMarks) ==
    IF value = <<>> THEN nodes
    ELSE IF /\ Len(nodes) > 0
            /\ nodes[Len(nodes)].type = "text"
            /\ areMarksEqual(nodes[Len(nodes)].marks, activeMarks)
         THEN [nodes EXCEPT ![Len(nodes)] =
                   text(nodes[Len(nodes)].text \o value, activeMarks)]
         ELSE Append(nodes, text(value, activeMarks))

RECURSIVE LastIndexOfType(_, _, _)
LastIndexOfType(marks, type, k) ==
    IF k = 0 THEN 0
    ELSE IF marks[k].type = type THEN k
    ELSE LastIndexOfType(marks, type, k - 1)

RemoveAt(s, k) == SubSeq(s, 1, k - 1) \o SubSeq(s, k + 1, Len(s))

popMark_First(marks, type) ==
    LET open == { k \in 1..Len(marks) : marks[k].type = type }
    IN  IF open = {} THEN marks
        ELSE RemoveAt(marks, CHOOSE k \in open : \A j \in open : k <= j)

\* popMark(marks, type): splice out the last mark of that type, if any.
popMark(marks, type) ==
    LET k == LastIndexOfType(marks, type, Len(marks))
    IN  IF k = 0 THEN marks ELSE RemoveAt(marks, k)

\* One iteration of the for loop of parseInlineTokens.
InlineStep(st, tok, opts) ==
    CASE tok.type = "text" ->
           [st EXCEPT !.nodes = pushText(st.nodes, tok.content, st.marks)]
      [] tok.type = "code_inline" ->
           [st EXCEPT !.nodes =
                pushText(st.nodes, tok.content, Append(st.marks, codeMark))]
      [] tok.type = "softbreak" ->
           IF opts.preserveLineBreaks
           THEN [st EXCEPT !.nodes = Append(st.nodes, hardBreak)]
           ELSE [st EXCEPT !.nodes = pushText(st.nodes, <<" ">>, st.marks)]
      [] tok.type = "hardbreak" ->
           [st EXCEPT !.nodes = Append(st.nodes, hardBreak)]
      [] tok.type = "strong_open" -> [st EXCEPT !.marks = Append(st.marks, strong)]
      [] tok.type = "strong_close" -> [st EXCEPT !.marks = popMark(st.marks, "strong")]
      [] tok.type = "em_open" -> [st EXCEPT !.marks = Append(st.marks, em)]
      [] tok.type = "em_close" -> [st EXCEPT !.marks = popMark(st.marks, "em")]
      [] tok.type \in {"s_open", "del_open"} ->
           [st EXCEPT !.marks = Append(st.marks, strike)]
      [] tok.type \in {"s_close", "del_close"} ->
           [st EXCEPT !.marks = popMark(st.marks, "strike")]
      [] tok.type = "link_open" ->
           IF tok.href # ""
           THEN [st EXCEPT !.marks = Append(st.marks, link(tok.href, tok.title))]
           ELSE st
      [] tok.type = "link_close" -> [st EXCEPT !.marks = popMark(st.marks, "link")]
      [] tok.type = "html_inline" ->
           IF opts.stripTaskCheckbox /\ parseTaskCheckbox(tok).isCheckbox
           THEN [st EXCEPT !.taskChecked =
                     st.taskChecked \/ parseTaskCheckbox(tok).checked]
           ELSE st
      [] tok.type = "image" ->
           LET altText == IF tok.content # <<>> THEN tok.content ELSE tok.alt
           IN  IF tok.src # ""
               THEN [st EXCEPT !.nodes =
                        pushText(st.nodes,
                                 IF altText # <<>> THEN altText ELSE <<tok.src>>,
                                 Append(st.marks, link(tok.src, "")))]
               ELSE IF altText # <<>>
                    THEN [st EXCEPT !.nodes = pushText(st.nodes, altText, st.marks)]
                    ELSE st
      [] OTHER -> st

InlineStart == [nodes |-> <<>>, marks |-> <<>>, taskChecked |-> FALSE]

RECURSIVE InlineFold(_, _, _, _)
InlineFold(st, toks, k, opts) ==
    IF k > Len(toks) THEN st
    ELSE InlineFold(InlineStep(st, toks[k], opts), toks, k + 1, opts)

\* parseInlineTokens(tokens, options): {nodes, taskChecked}.
parseInlineTokens(toks, opts) ==
    IF Len(toks) = 0 THEN [nodes |-> <<>>, taskChecked |-> FALSE]
    ELSE LET st == InlineFold(InlineStart, toks, 1, opts)
         IN  [nodes |-> st.nodes, taskChecked |-> st.taskChecked]

(***************************************************************************)
(* Block tokens as markdown-it hands them over.  level is the number in    *)
(* the tag of a heading ("h2" -> 2); cls tells whether the class attribute *)
(* of the token holds the word task-list-item; the map of the token at     *)
(* index i starts at line i, so getLine(token) is its index.               *)
(***************************************************************************)
Tok(t) ==
    [type |-> t, level |-> 0, children |-> <<>>, cls |-> FALSE, info |-> <<>>,
     content |-> <<>>]
Inl(children) == [Tok("inline") EXCEPT !.children = children]
NoToken == Tok("undefined")
TokAt(toks, i) == IF i >= 1 /\ i <= Len(toks) THEN toks[i] ELSE NoToken

Para(children) == <<Tok("paragraph_open"), Inl(children), Tok("paragraph_close")>>
Heading(level, children) ==
    <<[Tok("heading_open") EXCEPT !.level = level], Inl(children),
      [Tok("heading_close") EXCEPT !.level = level]>>
Fence(info, content) ==
    <<[Tok("fence") EXCEPT !.info = info, !.content = content]>>
Hr == <<Tok("hr")>>
Quote(body) == <<Tok("blockquote_open")>> \o body \o <<Tok("blockquote_close")>>
Item(cls, body) ==
    <<[Tok("list_item_open") EXCEPT !.cls = cls]>> \o body \o <<Tok("list_item_close")>>
BulletList(items) == <<Tok("bullet_list_open")>> \o items \o <<Tok("bullet_list_close")>>
OrderedList(items) == <<Tok("ordered_list_open")>> \o items \o <<Tok("ordered_list_close")>>
Cell(open, close, children) == <<Tok(open), Inl(children), Tok(close)>>
Row(cells) == <<Tok("tr_open")>> \o cells \o <<Tok("tr_close")>>
Table(headRows, bodyRows) ==
    <<Tok("table_open"), Tok("thead_open")>> \o headRows \o <<Tok("thead_close"),
      Tok("tbody_open")>> \o bodyRows \o <<Tok("tbody_close"), Tok("table_close")>>

(***************************************************************************)
(* block-parser.ts: the helpers without recursion into blocks.             *)
(***************************************************************************)
\* parseInline(token): the nodes of the token's children, [] when the token
\* or its children are missing.
parseInline(tok, opts) ==
    parseInlineTokens(tok.children,
                      [preserveLineBreaks |-> opts.preserveLineBreaks,
                       stripTaskCheckbox |-> FALSE]).nodes

\* getHeadingLevel(tag): the number of the tag, 1 when it is not in 1..6.
getHeadingLevel(tok) == IF tok.level >= 1 /\ tok.level <= 6 THEN tok.level ELSE 1

applyMarkToInline_DropsEmpty(nodes, mark) ==
    [k \in 1..Len(nodes) |->
        IF nodes[k].type # "text" THEN nodes[k]
        ELSE text(nodes[k].text, Append(nodes[k].marks, mark))]


\* applyMarkToInline(nodes, mark)
applyMarkToInline(nodes, mark) ==
    IF Len(nodes) = 0 THEN <<text(<<>>, <<mark>>)>>
    ELSE [k \in 1..Len(nodes) |->
            IF nodes[k].type # "text" THEN nodes[k]
            ELSE text(nodes[k].text, Append(nodes[k].marks, mark))]

IsSpace(c) == c \in {" ", "\n", "\t"}

RECURSIVE DropLeadingSpace(_)
DropLeadingSpace(s) ==
    IF Len(s) > 0 /\ IsSpace(s[1]) THEN DropLeadingSpace(Tail(s)) ELSE s

RECURSIVE DropTrailingSpace(_)
DropTrailingSpace(s) ==
    IF Len(s) > 0 /\ IsSpace(s[Len(s)])
    THEN DropTrailingSpace(SubSeq(s, 1, Len(s) - 1)) ELSE s

\* String.prototype.trim
Trim(s) == DropTrailingSpace(DropLeadingSpace(s))

\* trimLeadingSpace(nodes)
trimLeadingSpace(nodes) ==
    IF Len(nodes) = 0 THEN nodes
    ELSE IF nodes[1].type # "text" THEN nodes
    ELSE IF ~(Len(nodes[1].text) > 0 /\ nodes[1].text[1] = " ") THEN nodes
    ELSE LET trimmed == DropLeadingSpace(nodes[1].text)
         IN  IF trimmed = <<>> THEN Tail(nodes)
             ELSE <<text(trimmed, nodes[1].marks)>> \o Tail(nodes)

parseCodeBlockToken_TrimsContent(tok, opts) ==
    LET language == IF Trim(tok.info) # <<>> THEN Trim(tok.info)
                    ELSE opts.defaultCodeLanguage
    IN  codeBlock(DropTrailingSpace(tok.content), language)

\* parseCodeBlockToken(token): content.replace(/\n$/, '') removes one final
\* line feed.
parseCodeBlockToken(tok, opts) ==
    LET language == IF Trim(tok.info) # <<>> THEN Trim(tok.info)
                    ELSE opts.defaultCodeLanguage
        code == IF Len(tok.content) > 0 /\ tok.content[Len(tok.content)] = "\n"
                THEN SubSeq(tok.content, 1, Len(tok.content) - 1)
                ELSE tok.content
    IN  codeBlock(code, language)

\* hasTaskItemClass(token)
hasTaskItemClass(tok) == tok.cls

\* inlineHasTaskCheckbox(token)
inlineHasTaskCheckbox(tok) ==
    \E k \in 1..Len(tok.children) :
        tok.children[k].type = "html_inline" /\ tok.children[k].isCheckbox

RECURSIVE TaskScan(_, _)
TaskScan(toks, i) ==
    IF i > Len(toks) THEN FALSE
    ELSE IF toks[i].type = "list_item_close" THEN FALSE
    ELSE IF toks[i].type = "inline" /\ inlineHasTaskCheckbox(toks[i]) THEN TRUE
    ELSE TaskScan(toks, i + 1)

\* isTaskListItem(tokens, startIndex)
isTaskListItem(toks, startIndex) ==
    IF hasTaskItemClass(toks[startIndex]) THEN TRUE
    ELSE TaskScan(toks, startIndex + 1)

\* parseTable: the three nested while loops, innermost first.
RECURSIVE RowLoop_AllCells(_, _, _, _, _)
RowLoop_AllCells(toks, i, isHeader, cells, opts) ==
    IF i > Len(toks) THEN [cells |-> cells, i |-> i]
    ELSE IF toks[i].type = "tr_close" THEN [cells |-> cells, i |-> i]
    ELSE IF toks[i].type \in {"th_open", "td_open"}
         THEN LET inline == parseInline(TokAt(toks, i + 1), opts)
              IN  RowLoop_AllCells(toks, i + 3, isHeader,
                      Append(cells, tableCell(<<paragraph(inline)>>)), opts)
         ELSE RowLoop_AllCells(toks, i + 1, isHeader, cells, opts)

RECURSIVE RowLoop(_, _, _, _, _)
RowLoop(toks, i, isHeader, cells, opts) ==
    IF i > Len(toks) THEN [cells |-> cells, i |-> i]
    ELSE IF toks[i].type = "tr_close" THEN [cells |-> cells, i |-> i]
    ELSE IF toks[i].type \in {"th_open", "td_open"}
         THEN LET isHeaderCell == toks[i].type = "th_open" \/ isHeader
                  inline == parseInline(TokAt(toks, i + 1), opts)
                  cellContent == <<paragraph(inline)>>
              IN  RowLoop(toks, i + 3, isHeader,
                          Append(cells, IF isHeaderCell THEN tableHeader(cellContent)
                                        ELSE tableCell(cellContent)), opts)
         ELSE RowLoop(toks, i + 1, isHeader, cells, opts)

RECURSIVE SectionLoop(_, _, _, _, _, _)
SectionLoop(toks, i, isHeader, sectionClose, rows, opts) ==
    IF i > Len(toks) THEN [rows |-> rows, i |-> i]
    ELSE IF toks[i].type = sectionClose THEN [rows |-> rows, i |-> i]
    ELSE IF toks[i].type = "tr_open"
         THEN LET r == RowLoop(toks, i + 1, isHeader, <<>>, opts)
              IN  SectionLoop(toks, r.i + 1, isHeader, sectionClose,
                              Append(rows, tableRow(r.cells)), opts)
         ELSE SectionLoop(toks, i + 1, isHeader, sectionClose, rows, opts)

RECURSIVE TableLoop(_, _, _, _)
TableLoop(toks, i, rows, opts) ==
    IF i > Len(toks) THEN [rows |-> rows, i |-> i]
    ELSE IF toks[i].type = "table_close" THEN [rows |-> rows, i |-> i]
    ELSE IF toks[i].type \in {"thead_open", "tbody_open"}
         THEN LET isHeader == toks[i].type = "thead_open"
                  sectionClose == IF isHeader THEN "thead_close" ELSE "tbody_close"
                  s == SectionLoop(toks, i + 1, isHeader, sectionClose, rows, opts)
              IN  TableLoop(toks, s.i + 1, s.rows, opts)
         ELSE TableLoop(toks, i + 1, rows, opts)

\* parseTable(tokens, startIndex): {node, nextIndex}
parseTable(toks, startIndex, opts) ==
    LET t == TableLoop(toks, startIndex + 1, <<>>, opts)
    IN  [node |-> [tableNode(t.rows) EXCEPT !.src = startIndex],
         nextIndex |-> t.i + 1]

(***************************************************************************)
(* presets/index.ts                                                        *)
(***************************************************************************)
Unset == "unset"
Presets == {"default", "comment", "task", "story"}

resolvePreset_NoHeadings(p) ==
    [useHeadings |-> FALSE,
     maxHeadingLevel |-> 6,
     preserveLineBreaks |-> FALSE,
     strictMode |-> FALSE,
     defaultCodeLanguage |-> <<"t", "e", "x", "t">>]

\* PRESET_CONFIGS[preset]
resolvePreset(p) ==
    [useHeadings |-> (p = "story"),
     maxHeadingLevel |-> 6,
     preserveLineBreaks |-> FALSE,
     strictMode |-> FALSE,
     defaultCodeLanguage |-> <<"t", "e", "x", "t">>]

\* value ?? fallback, for a boolean option given as "unset", "true" or
\* "false" and for a level given as a number, 0 when not given.
OrElseBool(v, d) == IF v = Unset THEN d ELSE v = "true"
OrElseLevel(v, d) == IF v = 0 THEN d ELSE v
\* the same for a string option, <<"unset">> when not given
UnsetText == <<Unset>>
OrElseText(v, d) == IF v = UnsetText THEN d ELSE v

\* resolveOptions(options): the five keys of the preset, each overridden by
\* the caller's value when given.  No other key of the caller's options is
\* copied, so warnOnRiskyNodes is undefined (falsy) in the resolved record.
resolveOptions(o) ==
    LET presetConfig == resolvePreset(IF o.preset = Unset THEN "default" ELSE o.preset)
    IN  [useHeadings |-> OrElseBool(o.useHeadings, presetConfig.useHeadings),
         maxHeadingLevel |->
             OrElseLevel(o.maxHeadingLevel, presetConfig.maxHeadingLevel),
         preserveLineBreaks |->
             OrElseBool(o.preserveLineBreaks, presetConfig.preserveLineBreaks),
         strictMode |-> OrElseBool(o.strictMode, presetConfig.strictMode),
         defaultCodeLanguage |->
             OrElseText(o.defaultCodeLanguage, presetConfig.defaultCodeLanguage),
         warnOnRiskyNodes |-> FALSE]

(***************************************************************************)
(* The token streams and option objects the model runs on.                 *)
(***************************************************************************)
txtA == <<"a">>
Ka == <<IText(txtA)>>
Kempty == <<>>
Kbold == <<ITok("strong_open"), IText(txtA), ITok("strong_close")>>
Kbreak == <<IText(txtA), ITok("softbreak"), IText(txtA)>>
KcbOff == <<IHtml(TRUE, FALSE), IText(<<" ", "a">>)>>
KcbOn == <<IHtml(TRUE, TRUE), IText(<<" ", "a">>)>>
\* "[x] ![]()": a checked checkbox, the space after it and an image with
\* neither source nor alternative text
KcbOnBlank == <<IHtml(TRUE, TRUE), IText(<<" ">>), IImage("", <<>>, <<>>)>>

RECURSIVE Concat(_)
Concat(ss) == IF Len(ss) = 0 THEN <<>> ELSE Head(ss) \o Concat(Tail(ss))

SeqsUpTo(S, n) == UNION {[1..k -> S] : k \in 0..n}

aFence == Fence(<<>>, <<"a", "\n">>)
\* Fenced and indented code: the info string absent, blank, or padded; the
\* content ending in no, one or two line feeds, or in a space and a line feed.
FenceBlocks ==
    { <<[Tok(t) EXCEPT !.info = info, !.content = content]>> :
        t \in {"fence", "code_block"},
        info \in {<<>>, <<" ">>, <<" ", "j", " ">>},
        content \in {<<>>, <<"a">>, <<"a", "\n">>, <<"a", "\n", "\n">>,
                     <<"a", " ", "\n">>} }
aTable == Table(Row(Cell("th_open", "th_close", Ka)), Row(Cell("td_open", "td_close", Ka)))

\* Tables of one or two columns: one header row and up to two body rows, the
\* cells with text or without inline content, and one with a bold cell.
HeadRows(w) ==
    { Row(Concat([k \in 1..w |-> Cell("th_open", "th_close", c[k])])) :
        c \in [1..w -> {Ka, Kempty}] }
BodyRows(w) ==
    { Row(Concat([k \in 1..w |-> Cell("td_open", "td_close", c[k])])) :
        c \in [1..w -> {Ka, Kempty}] }
TableBlocks ==
    UNION { { Table(h, Concat(b)) : h \in HeadRows(w), b \in SeqsUpTo(BodyRows(w), 2) } :
            w \in {1, 2} }
    \cup { Table(Row(Cell("th_open", "th_close", Kbold)),
                 Row(Cell("td_open", "td_close", Kbold))) }

\* Items that make up the runs of a list: regular, unchecked task, checked
\* task, and a regular item holding a nested task list.
ItemCore ==
    { Item(FALSE, Para(Ka)),
      Item(TRUE, Para(KcbOff)),
      Item(TRUE, Para(KcbOn)),
      Item(FALSE, Para(Ka) \o BulletList(Item(TRUE, Para(KcbOn)))) }

\* Items tried alone in a list.
ItemAlone ==
    { Item(TRUE, Para(KcbOnBlank) \o Para(Ka)),
      Item(TRUE, Para(KcbOnBlank)),
      Item(TRUE, Para(KcbOn) \o aFence),
      Item(TRUE, Para(KcbOn) \o Para(Ka)),
      Item(TRUE, Para(KcbOff) \o BulletList(Item(FALSE, Para(Ka)))),
      Item(TRUE, Para(Ka)),
      Item(FALSE, Para(KcbOn)),
      Item(FALSE, Para(Ka) \o aFence),
      Item(FALSE, aFence),
      Item(FALSE, aFence \o Quote(Para(Ka))),
      Item(FALSE, Para(Ka) \o OrderedList(Item(FALSE, Para(Ka)))),
      Item(FALSE, Para(Ka) \o Hr),
      Item(FALSE, Heading(1, Ka)),
      Item(FALSE, Quote(Para(Ka))),
      Item(FALSE, Quote(<<>>)),
      Item(FALSE, aTable),
      Item(FALSE, <<>>),
      Item(FALSE, <<Inl(Ka)>>),
      Item(FALSE, Para(Kempty)) }

ListBlocks ==
    UNION { {BulletList(Concat(s)), OrderedList(Concat(s))} :
              s \in SeqsUpTo(ItemCore, MaxItems) }
    \cup UNION { {BulletList(x), OrderedList(x)} : x \in ItemAlone }

HeadingBlocks == { Heading(l, k) : l \in {1, 2}, k \in {Ka, Kbold, Kempty, Kbreak} }

LeafBlocks ==
    { Para(Ka), Para(Kempty), Para(Kbreak), aFence, Hr, aTable, <<Inl(Ka)>>,
      <<Tok("html_block")>> }

\* A nested stream and every proper prefix of it (close tokens missing).
Nested == BulletList(Item(FALSE, Para(Ka) \o Quote(Para(Ka)))) \o Para(Ka)
Truncated == { SubSeq(Nested, 1, k) : k \in 1..(Len(Nested) - 1) }
\* Streams with a close token missing in the middle: of a block quote inside
\* a list item, and of a list item.
Unclosed ==
    { BulletList(Item(FALSE, <<Tok("blockquote_open")>> \o Para(Ka))) \o Para(Ka),
      BulletList(<<Tok("list_item_open")>> \o Para(Ka)) \o Para(Ka) }

Docs ==
    HeadingBlocks \cup ListBlocks \cup LeafBlocks \cup FenceBlocks \cup TableBlocks
    \cup Truncated \cup Unclosed
    \cup { Quote(b) : b \in LeafBlocks \cup {Heading(2, Ka), <<>>,
                                             BulletList(Item(FALSE, aFence))} }
    \cup { Hr \o Heading(2, Ka), Para(Ka) \o Hr \o Para(Ka), Nested,
           Quote(Quote(Para(Ka))), BulletList(Para(Ka)), <<>> }

HasType(toks, types) == \E k \in 1..Len(toks) : toks[k].type \in types
HasInlineType(toks, types) ==
    \E k \in 1..Len(toks) :
        \E j \in 1..Len(toks[k].children) : toks[k].children[j].type \in types

\* The option objects tried with a stream: every preset and strictMode with
\* every stream; an option that no token of the stream reads is left unset.
UserOptions(toks) ==
    [preset : {Unset, "comment", "task", "story"},
     strictMode : {Unset, "true"},
     useHeadings : IF HasType(toks, {"heading_open"}) THEN {Unset, "true", "false"}
                   ELSE {Unset},
     maxHeadingLevel : IF HasType(toks, {"heading_open"}) THEN {0, 1} ELSE {0},
     preserveLineBreaks : IF HasInlineType(toks, {"softbreak"}) THEN {Unset, "true"}
                          ELSE {Unset},
     warnOnRiskyNodes : IF HasType(toks, {"table_open"}) THEN {Unset, "true"}
                        ELSE {Unset},
     defaultCodeLanguage : IF toks \in FenceBlocks THEN {UnsetText, <<"j", "s">>}
                           ELSE {UnsetText}]

(***************************************************************************)
(* block-parser.ts: BlockParser as a machine.  A frame is one activation   *)
(* of parseBlockTokens ("blocks"), parseList ("list") or parseListItem     *)
(* ("item"); an action is one iteration of the loop of the top frame, or   *)
(* its return.  nodes holds the local nodes of a "blocks" frame and the    *)
(* local blocks of an "item" frame; start is the frame's startIndex.       *)
(***************************************************************************)
NoSegment == [type |-> "none", items |-> <<>>]
Frame(fn, i, start) ==
    [fn |-> fn, i |-> i, start |-> start, endType |-> "", nodes |-> <<>>,
     listType |-> "", segments |-> <<>>, cur |-> NoSegment, asTask |-> FALSE,
     taskChecked |-> FALSE, taskContent |-> <<>>]

NoError == [type |-> "", msg |-> "", line |-> 0]
Top == stack[Len(stack)]
Rest == SubSeq(stack, 1, Len(stack) - 1)
Running == status = "running" /\ Len(stack) > 0
Cur == tokens[Top.i]

closeType(listType) ==
    IF listType = "bullet" THEN "bullet_list_close" ELSE "ordered_list_close"

\* The loop tests of the three functions.
InBlocksLoop(f) ==
    /\ f.i <= Len(tokens)
    /\ ~(f.endType # "" /\ tokens[f.i].type = f.endType)
InListLoop(f) ==
    /\ f.i <= Len(tokens)
    /\ tokens[f.i].type # closeType(f.listType)
InItemLoop(f) ==
    /\ f.i <= Len(tokens)
    /\ tokens[f.i].type # "list_item_close"

InSwitch ==
    /\ Running
    /\ Top.fn \in {"blocks", "item"}
    /\ IF Top.fn = "blocks" THEN InBlocksLoop(Top) ELSE InItemLoop(Top)

BlockCases ==
    {"paragraph_open", "heading_open", "bullet_list_open", "ordered_list_open",
     "blockquote_open", "fence", "code_block", "table_open", "hr", "inline"}
ItemCases == BlockCases \ {"heading_open"}

\* A log that takes each new entry at its front.
addWarning_AtFront(log, type, msg, line) ==
    <<[type |-> type, msg |-> msg, line |-> line]>> \o log

\* addWarning(type, message, line)
addWarning(log, type, msg, line) ==
    Append(log, [type |-> type, msg |-> msg, line |-> line])

\* throw this.createError(type, message, line): the call ends, no nodes.
Throw(type, msg, line) ==
    /\ status' = "threw"
    /\ error' = [type |-> type, msg |-> msg, line |-> line]
    /\ stack' = <<>>
    /\ UNCHANGED <<warnings, result, listLog, itemLog>>

SetTop(f) == [stack EXCEPT ![Len(stack)] = f]

\* The caller's "nodes.push(...result.nodes); i = result.nextIndex".
Deliver(nodes, nextIndex) ==
    [Rest EXCEPT ![Len(Rest)] =
        [@ EXCEPT !.nodes = @ \o nodes, !.i = nextIndex]]

Static == UNCHANGED <<inlVars, cvVars, userOptions, tokens, preset, options>>

\* parseBlockTokens, case 'paragraph_open' (lines 69-75)
BlocksParagraph ==
    /\ InSwitch /\ Top.fn = "blocks" /\ Cur.type = "paragraph_open"
    /\ LET inline == parseInline(TokAt(tokens, Top.i + 1), options)
       IN  stack' = SetTop([Top EXCEPT !.nodes = Append(@, paragraph(inline)),
                                       !.i = @ + 3])
    /\ UNCHANGED <<warnings, status, result, error, listLog, itemLog>>
    /\ Static

\* The heading policy of parseBlockTokens, case 'heading_open' (lines 76-116)
presetAllowsHeadings(p) == p = "story" \/ p = "default"
exceedsMaxLevel(level, opts) == level > opts.maxHeadingLevel
canUseHeading(level, p, opts) ==
    presetAllowsHeadings(p) /\ opts.useHeadings /\ ~exceedsMaxLevel(level, opts)
incompatibleWithPreset(p) == ~presetAllowsHeadings(p)
incompatibleWithMax_IgnoresOptIn(level, opts) == exceedsMaxLevel(level, opts)
incompatibleWithMax(level, opts) == opts.useHeadings /\ exceedsMaxLevel(level, opts)
headingReason(p) == IF incompatibleWithPreset(p) THEN "heading_preset" ELSE "heading_max"

BlocksHeading ==
    /\ InSwitch /\ Top.fn = "blocks" /\ Cur.type = "heading_open"
    /\ LET level == getHeadingLevel(Cur)
           inline == parseInline(TokAt(tokens, Top.i + 1), options)
           incompatible ==
               incompatibleWithPreset(preset) \/ incompatibleWithMax(level, options)
       IN  IF canUseHeading(level, preset, options)
           THEN /\ stack' = SetTop([Top EXCEPT
                        !.nodes = Append(@, [heading(level,
                            IF Len(inline) > 0 THEN inline ELSE <<text(<<>>, <<>>)>>)
                            EXCEPT !.src = Top.i]),
                        !.i = @ + 3])
                /\ UNCHANGED <<warnings, status, result, error, listLog, itemLog>>
           ELSE IF options.strictMode /\ incompatible
           THEN Throw("unsupported_feature", headingReason(preset), Top.i)
           ELSE /\ warnings' =
                     IF incompatible
                     THEN addWarning(warnings, "lossy_conversion",
                                     headingReason(preset), Top.i)
                     ELSE warnings
                /\ stack' = SetTop([Top EXCEPT
                        !.nodes = Append(@, [paragraph(applyMarkToInline(inline, strong))
                                             EXCEPT !.src = Top.i]),
                        !.i = @ + 3])
                /\ UNCHANGED <<status, result, error, listLog, itemLog>>
    /\ Static

\* case 'bullet_list_open' / 'ordered_list_open' of parseBlockTokens (lines
\* 117-128) and parseListItem (lines 273-284): the call of parseList.
ListOpen ==
    /\ InSwitch /\ Cur.type \in {"bullet_list_open", "ordered_list_open"}
    /\ stack' = Append(stack,
            [Frame("list", Top.i + 1, Top.i) EXCEPT
                !.listType = IF Cur.type = "bullet_list_open" THEN "bullet"
                             ELSE "ordered"])
    /\ UNCHANGED <<warnings, status, result, error, listLog, itemLog>>
    /\ Static

\* case 'blockquote_open' (lines 129-134, 285-290): parseBlockQuote calls
\* parseBlockTokens(tokens, startIndex + 1, 'blockquote_close').
BlockquoteOpen ==
    /\ InSwitch /\ Cur.type = "blockquote_open"
    /\ stack' = Append(stack,
            [Frame("blocks", Top.i + 1, Top.i) EXCEPT !.endType = "blockquote_close"])
    /\ UNCHANGED <<warnings, status, result, error, listLog, itemLog>>
    /\ Static

\* case 'fence' / 'code_block' (lines 135-140, 291-296)
CodeBlockToken ==
    /\ InSwitch /\ Cur.type \in {"fence", "code_block"}
    /\ stack' = SetTop([Top EXCEPT
            !.nodes = Append(@, [parseCodeBlockToken(Cur, options) EXCEPT !.src = Top.i]),
            !.i = @ + 1])
    /\ UNCHANGED <<warnings, status, result, error, listLog, itemLog>>
    /\ Static

\* warnIfRisky('table', line)
warnIfRisky(log, p, opts, line) ==
    IF ~opts.warnOnRiskyNodes THEN log
    ELSE IF p = "comment" THEN addWarning(log, "risky_feature", "table_risky", line)
    ELSE log

\* case 'table_open' (lines 141-147, 297-303)
TableOpen ==
    /\ InSwitch /\ Cur.type = "table_open"
    /\ LET r == parseTable(tokens, Top.i, options)
       IN  /\ warnings' = warnIfRisky(warnings, preset, options, Top.i)
           /\ stack' = SetTop([Top EXCEPT !.nodes = Append(@, r.node),
                                          !.i = r.nextIndex])
    /\ UNCHANGED <<status, result, error, listLog, itemLog>>
    /\ Static

HrToken_NeverThrows ==
    /\ InSwitch /\ Cur.type = "hr"
    /\ warnings' = addWarning(warnings, "unsupported_feature", "hr", Top.i)
    /\ stack' = SetTop([Top EXCEPT !.i = @ + 1])
    /\ UNCHANGED <<status, result, error, listLog, itemLog>>
    /\ Static

\* case 'hr' (lines 148-165, 320-337)
HrToken ==
    /\ InSwitch /\ Cur.type = "hr"
    /\ IF options.strictMode
       THEN Throw("unsupported_feature", "hr", Top.i)
       ELSE /\ warnings' = addWarning(warnings, "unsupported_feature", "hr", Top.i)
            /\ stack' = SetTop([Top EXCEPT !.i = @ + 1])
            /\ UNCHANGED <<status, result, error, listLog, itemLog>>
    /\ Static

\* parseBlockTokens, case 'inline' (lines 166-171)
BlocksInline ==
    /\ InSwitch /\ Top.fn = "blocks" /\ Cur.type = "inline"
    /\ stack' = SetTop([Top EXCEPT
            !.nodes = Append(@, paragraph(parseInline(Cur, options))),
            !.i = @ + 1])
    /\ UNCHANGED <<warnings, status, result, error, listLog, itemLog>>
    /\ Static

\* A default case that leaves the cursor where it is.
DefaultToken_StaysPut ==
    /\ InSwitch
    /\ Cur.type \notin (IF Top.fn = "blocks" THEN BlockCases ELSE ItemCases)
    /\ stack' = stack
    /\ UNCHANGED <<warnings, status, result, error, listLog, itemLog>>
    /\ Static

\* default (lines 172-175, 338-341)
DefaultToken ==
    /\ InSwitch
    /\ Cur.type \notin (IF Top.fn = "blocks" THEN BlockCases ELSE ItemCases)
    /\ stack' = SetTop([Top EXCEPT !.i = @ + 1])
    /\ UNCHANGED <<warnings, status, result, error, listLog, itemLog>>
    /\ Static

\* The body shared by case 'paragraph_open' and case 'inline' of
\* parseListItem: the first content of a task item, else one more block.
ItemContent(f, inlineToken) ==
    LET inlineResult ==
            parseInlineTokens(inlineToken.children,
                              [preserveLineBreaks |-> options.preserveLineBreaks,
                               stripTaskCheckbox |-> f.asTask])
    IN  IF f.asTask /\ Len(f.taskContent) = 0
        THEN [f EXCEPT !.taskContent = trimLeadingSpace(inlineResult.nodes),
                       !.taskChecked = inlineResult.taskChecked]
        ELSE [f EXCEPT !.nodes = Append(@, paragraph(inlineResult.nodes))]

\* parseListItem, case 'paragraph_open' (lines 256-272)
ItemParagraph ==
    /\ InSwitch /\ Top.fn = "item" /\ Cur.type = "paragraph_open"
    /\ stack' = SetTop([ItemContent(Top, TokAt(tokens, Top.i + 1)) EXCEPT !.i = @ + 3])
    /\ UNCHANGED <<warnings, status, result, error, listLog, itemLog>>
    /\ Static

\* parseListItem, case 'inline' (lines 304-319)
ItemInline ==
    /\ InSwitch /\ Top.fn = "item" /\ Cur.type = "inline"
    /\ stack' = SetTop([ItemContent(Top, Cur) EXCEPT !.i = @ + 1])
    /\ UNCHANGED <<warnings, status, result, error, listLog, itemLog>>
    /\ Static

\* parseBlockTokens returning to parse (lines 64-66, 179 and 50-52)
ParseReturn ==
    /\ Running /\ Top.fn = "blocks" /\ ~InBlocksLoop(Top) /\ Len(stack) = 1
    /\ status' = "done"
    /\ result' = Top.nodes
    /\ stack' = <<>>
    /\ UNCHANGED <<warnings, error, listLog, itemLog>>
    /\ Static

BlockQuoteReturn_AlwaysWraps ==
    /\ Running /\ Top.fn = "blocks" /\ ~InBlocksLoop(Top) /\ Len(stack) > 1
    /\ stack' = Deliver(<<[blockQuote(Top.nodes) EXCEPT !.src = Top.start]>>,
                        IF Top.i <= Len(tokens) THEN Top.i + 1 ELSE Top.i)
    /\ UNCHANGED <<warnings, status, result, error, listLog, itemLog>>
    /\ Static

\* parseBlockTokens returning to parseBlockQuote, and parseBlockQuote to its
\* caller (lines 386-403)
BlockQuoteReturn ==
    /\ Running /\ Top.fn = "blocks" /\ ~InBlocksLoop(Top) /\ Len(stack) > 1
    /\ LET nextIndex == IF Top.i <= Len(tokens) THEN Top.i + 1 ELSE Top.i
       IN  IF preset = "comment"
           THEN /\ warnings' = addWarning(warnings, "lossy_conversion",
                                          "blockquote_comment", Top.start)
                /\ stack' = Deliver(IF Len(Top.nodes) > 0 THEN Top.nodes
                                    ELSE <<paragraph(<<>>)>>, nextIndex)
           ELSE /\ warnings' = warnings
                /\ stack' = Deliver(<<[blockQuote(Top.nodes) EXCEPT !.src = Top.start]>>,
                                    nextIndex)
    /\ UNCHANGED <<status, result, error, listLog, itemLog>>
    /\ Static

\* pushSegment(segment)
pushSegment(segments, segment) ==
    IF Len(segment.items) = 0 THEN segments ELSE Append(segments, segment)

\* parseList, the loop body at a list_item_open (lines 209-219): classify the
\* item, open a new segment on a change of class, call parseListItem.
ListItemOpen ==
    /\ Running /\ Top.fn = "list" /\ InListLoop(Top) /\ Cur.type = "list_item_open"
    /\ LET isTaskItem == Top.listType = "bullet" /\ isTaskListItem(tokens, Top.i)
           segmentType == IF isTaskItem THEN "task" ELSE "regular"
           opened ==
               IF Top.cur.type = "none"
               THEN [Top EXCEPT !.cur = [type |-> segmentType, items |-> <<>>]]
               ELSE IF Top.cur.type # segmentType
               THEN [Top EXCEPT !.segments = pushSegment(@, Top.cur),
                                !.cur = [type |-> segmentType, items |-> <<>>]]
               ELSE Top
       IN  stack' = Append(SetTop(opened),
                           [Frame("item", Top.i + 1, Top.i) EXCEPT !.asTask = isTaskItem])
    /\ UNCHANGED <<warnings, status, result, error, listLog, itemLog>>
    /\ Static

\* parseList, the loop body at any other token (lines 226-228)
ListSkip ==
    /\ Running /\ Top.fn = "list" /\ InListLoop(Top) /\ Cur.type # "list_item_open"
    /\ stack' = SetTop([Top EXCEPT !.i = @ + 1])
    /\ UNCHANGED <<warnings, status, result, error, listLog, itemLog>>
    /\ Static

\* segments.map(...) of parseList (lines 233-238)
SegmentNode_AlwaysBullet(segment, listType, start) ==
    [bulletList(segment.items) EXCEPT !.src = start]

SegmentNode(segment, listType, start) ==
    [(IF segment.type = "task" THEN taskList(segment.items)
      ELSE IF listType = "bullet" THEN bulletList(segment.items)
      ELSE orderedList(segment.items)) EXCEPT !.src = start]

\* A parseList that answers a list without items by an empty list node.
ListReturn_EmptyListWithoutItems ==
    /\ Running /\ Top.fn = "list" /\ ~InListLoop(Top)
    /\ LET segments == IF Top.cur.type # "none" THEN Append(Top.segments, Top.cur)
                       ELSE <<[type |-> "regular", items |-> <<>>]>>
       IN  \E ids \in [1..Len(segments) -> generateLocalId] :
           LET nodes == [k \in 1..Len(segments) |->
                   LET node == SegmentNode(segments[k], Top.listType, Top.start)
                   IN  IF node.type = "taskList" THEN withLocalId(node, ids[k])
                       ELSE node]
           IN
           /\ stack' = Deliver(nodes, Top.i + 1)
           /\ listLog' = Append(listLog,
                  [start |-> Top.start, listType |-> Top.listType, nodes |-> nodes])
    /\ UNCHANGED <<warnings, status, result, error, itemLog>>
    /\ Static

\* parseList returning (lines 231-240)
ListReturn ==
    /\ Running /\ Top.fn = "list" /\ ~InListLoop(Top)
    /\ LET segments == IF Top.cur.type # "none" THEN pushSegment(Top.segments, Top.cur)
                       ELSE Top.segments
       IN  \E ids \in [1..Len(segments) -> generateLocalId] :
           LET nodes == [k \in 1..Len(segments) |->
                   LET node == SegmentNode(segments[k], Top.listType, Top.start)
                   IN  IF node.type = "taskList" THEN withLocalId(node, ids[k])
                       ELSE node]
           IN
           /\ stack' = Deliver(nodes, Top.i + 1)
           /\ listLog' = Append(listLog,
                  [start |-> Top.start, listType |-> Top.listType, nodes |-> nodes])
    /\ UNCHANGED <<warnings, status, result, error, itemLog>>
    /\ Static

\* The blocks a list item keeps (lines 362-365)
IsAllowedInListItem_Any(block) == block.type # "text"
IsAllowedInListItem(block) ==
    block.type = "paragraph" \/ block.type = "bulletList" \/ block.type = "orderedList"
allowedBlocks(blocks) == SelectSeq(blocks, IsAllowedInListItem)

\* parseListItem after its loop (lines 345-384): the warnings and the pair
\* {listItem, taskItem} it returns.
itemWarnings_AnyBlock(log, f) ==
    IF Len(f.nodes) > 0
    THEN addWarning(log, "lossy_conversion",
                    IF f.asTask THEN "task_extra" ELSE "list_item_dropped", f.start)
    ELSE log

itemWarnings(log, f) ==
    IF f.asTask
    THEN IF Len(f.nodes) > 0
         THEN addWarning(log, "lossy_conversion", "task_extra", f.start)
         ELSE log
    ELSE IF Len(allowedBlocks(f.nodes)) # Len(f.nodes)
         THEN addWarning(log, "lossy_conversion", "list_item_dropped", f.start)
         ELSE log

itemResult(f) ==
    LET allowed == allowedBlocks(f.nodes)
        task == [taskItem(f.taskContent, f.taskChecked) EXCEPT !.src = f.start]
    IN  IF f.asTask
        THEN [listItem |-> [listItem(<<paragraph(f.taskContent)>>) EXCEPT !.src = f.start],
              taskItem |-> task]
        ELSE [listItem |-> [listItem(IF Len(allowed) = 0 THEN <<paragraph(<<>>)>>
                                     ELSE allowed) EXCEPT !.src = f.start],
              taskItem |-> task]

ItemReturn_StrictThrowsOnDrop ==
    /\ Running /\ Top.fn = "item" /\ ~InItemLoop(Top)
    /\ IF options.strictMode /\ itemWarnings(warnings, Top) # warnings
       THEN Throw("lossy_conversion", "list_item_dropped", Top.start)
       ELSE \E id \in generateLocalId :
            LET r == [itemResult(Top) EXCEPT !.taskItem = withLocalId(@, id)]
                list == Rest[Len(Rest)]
                chosen == IF list.cur.type = "task" THEN r.taskItem ELSE r.listItem
            IN  /\ warnings' = itemWarnings(warnings, Top)
                /\ stack' = [Rest EXCEPT ![Len(Rest)] =
                       [list EXCEPT !.cur.items = Append(@, chosen), !.i = Top.i + 1]]
                /\ itemLog' = Append(itemLog,
                       [start |-> Top.start, asTask |-> Top.asTask, blocks |-> Top.nodes,
                        listItem |-> r.listItem, taskItem |-> r.taskItem])
                /\ UNCHANGED <<status, result, error, listLog>>
    /\ Static

\* parseListItem returning to parseList (lines 345-384 and 219-225)
ItemReturn ==
    /\ Running /\ Top.fn = "item" /\ ~InItemLoop(Top)
    /\ \E id \in generateLocalId :
       LET r == [itemResult(Top) EXCEPT !.taskItem = withLocalId(@, id)]
           list == Rest[Len(Rest)]
           chosen == IF list.cur.type = "task" THEN r.taskItem ELSE r.listItem
       IN  /\ warnings' = itemWarnings(warnings, Top)
           /\ stack' = [Rest EXCEPT ![Len(Rest)] =
                  [list EXCEPT !.cur.items = Append(@, chosen), !.i = Top.i + 1]]
           /\ itemLog' = Append(itemLog,
                  [start |-> Top.start, asTask |-> Top.asTask, blocks |-> Top.nodes,
                   listItem |-> r.listItem, taskItem |-> r.taskItem])
    /\ UNCHANGED <<status, result, error, listLog>>
    /\ Static

(***************************************************************************)
(* The inline resolver run token by token.                                 *)
(***************************************************************************)
InlineAlphabet ==
    { IText(txtA), IText(<<" ">>), IText(<<>>), ICode(txtA),
      ITok("softbreak"), ITok("hardbreak"),
      ITok("strong_open"), ITok("strong_close"), ITok("em_open"), ITok("em_close"),
      ITok("s_open"), ITok("del_close"),
      ILink("u", ""), ILink("u", "t"), ILink("", ""), ITok("link_close"),
      IHtml(TRUE, TRUE), IHtml(TRUE, FALSE), IHtml(FALSE, FALSE),
      IImage("v", txtA, <<>>), IImage("v", <<>>, <<>>), IImage("", <<>>, txtA),
      IImage("", <<>>, <<>>), ITok("footnote_ref") }

\* One iteration of "for (const token of tokens)" (lines 45-128)
InlineToken ==
    /\ inlCount < MaxInlineLen
    /\ \E tok \in InlineAlphabet :
          /\ inlState' = InlineStep(inlState, tok, inlOpts)
          /\ inlLast' = tok
    /\ inlCount' = inlCount + 1
    /\ UNCHANGED <<inlOpts, blockVars, cvVars>>

(***************************************************************************)
(* converter.ts: markdownToAdf and MarkdownConverter, the converter that   *)
(* reads the markdown text line by line.  A line is a sequence of          *)
(* characters; the regular expressions of the source are operators that    *)
(* compute their match.                                                    *)
(***************************************************************************)
WS == {" ", "\t"}
\* The grave accent U+0060, which a string of this language cannot hold.
Tick == "tick"
Fence3 == <<Tick, Tick, Tick>>
Digit == {"0", "1", "2", "3", "4", "5", "6", "7", "8", "9"}

RECURSIVE CountLeading(_, _)
CountLeading(s, S) ==
    IF Len(s) = 0 \/ s[1] \notin S THEN 0 ELSE 1 + CountLeading(Tail(s), S)

Drop(s, n) == SubSeq(s, n + 1, Len(s))
StartsWith(s, p) == Len(s) >= Len(p) /\ SubSeq(s, 1, Len(p)) = p

\* The tail "\s+(.+)$" of a pattern: white space, then a group of at least
\* one character; the group takes the last blank when nothing else is left.
SpaceThenRest(s) ==
    LET w == CountLeading(s, WS)
        after == Drop(s, w)
    IN  [ok |-> w >= 1 /\ (Len(after) > 0 \/ w >= 2),
         group |-> IF Len(after) > 0 THEN after
                   ELSE IF w >= 2 THEN <<s[w]>> ELSE <<>>]

\* /^(#{1,6})\s+(.+)$/.exec(line)  (line 106)
headingMatch(line) ==
    LET h == CountLeading(line, {"#"})
        r == SpaceThenRest(Drop(line, h))
    IN  [ok |-> h >= 1 /\ h <= 6 /\ r.ok, level |-> h, headingText |-> r.group]

\* /^[\s]*-\s+\[([ xX])\]\s+/ and the pattern of parseTaskList (line 213)
taskMatch(line) ==
    LET l1 == Drop(line, CountLeading(line, WS))
        l2 == Drop(l1, 1)
        l3 == Drop(l2, CountLeading(l2, WS))
        l4 == Drop(l3, 3)
        box == Len(l1) > 0 /\ l1[1] = "-" /\ CountLeading(l2, WS) >= 1
               /\ Len(l3) >= 3 /\ l3[1] = "[" /\ l3[2] \in {" ", "x", "X"}
               /\ l3[3] = "]"
        r == SpaceThenRest(l4)
    IN  [test |-> box /\ CountLeading(l4, WS) >= 1,
         ok |-> box /\ r.ok,
         checked |-> box /\ l3[2] \in {"x", "X"},
         itemText |-> r.group]

\* /^[\s]*[-*]\s+/ and /^[\s]*[-*]\s+(.+)$/  (lines 140, 244)
bulletMatch(line) ==
    LET l1 == Drop(line, CountLeading(line, WS))
        l2 == Drop(l1, 1)
        mark == Len(l1) > 0 /\ l1[1] \in {"-", "*"}
        r == SpaceThenRest(l2)
    IN  [test |-> mark /\ CountLeading(l2, WS) >= 1, ok |-> mark /\ r.ok,
         itemText |-> r.group]

\* /^[\s]*\d+\.\s+/ and /^[\s]*\d+\.\s+(.+)$/  (lines 148, 244)
orderedMatch(line) ==
    LET l1 == Drop(line, CountLeading(line, WS))
        d == CountLeading(l1, Digit)
        l2 == Drop(l1, d)
        l3 == Drop(l2, 1)
        mark == d >= 1 /\ Len(l2) > 0 /\ l2[1] = "."
        r == SpaceThenRest(l3)
    IN  [test |-> mark /\ CountLeading(l3, WS) >= 1, ok |-> mark /\ r.ok,
         itemText |-> r.group]

listMatch(line, listType) ==
    IF listType = "bullet" THEN bulletMatch(line) ELSE orderedMatch(line)

\* /^[-*_]{3,}$/.test(line.trim())  (line 164)
hrTest(line) ==
    LET t == Trim(line)
    IN  Len(t) >= 3 /\ \A k \in 1..Len(t) : t[k] \in {"-", "*", "_"}

\* /^\|[\s\-:|]+\|/.test(secondLine)  (line 306)
separatorTest(s) ==
    /\ Len(s) > 0 /\ s[1] = "|"
    /\ \E j \in 3..Len(s) :
          /\ s[j] = "|"
          /\ \A k \in 2..(j - 1) : s[k] \in WS \cup {"-", ":", "|"}

\* parseInlineMarkdown(text) is imported from utils/inline-parser.js, which
\* does not export it; on text without markup the tests show one unmarked
\* text node.
parseInlineMarkdown(s) == IF Len(s) = 0 THEN <<>> ELSE <<text(s, <<>>)>>

RECURSIVE JoinLines(_)
JoinLines(ls) ==
    IF Len(ls) = 0 THEN <<>>
    ELSE IF Len(ls) = 1 THEN ls[1]
    ELSE ls[1] \o <<"\n">> \o JoinLines(Tail(ls))

RECURSIVE SplitOnBar(_)
SplitOnBar(s) ==
    LET k == CountLeading(s, (WS \cup Digit \cup
                 {"#", "a", "-", ">", Tick, ".", "[", "]", "x", "X", "*", "_", ":"}))
    IN  IF k = Len(s) THEN <<s>>
        ELSE <<SubSeq(s, 1, k)>> \o SplitOnBar(Drop(s, k + 1))

\* parseCodeBlock(lines, startIndex): the index after the block
RECURSIVE CodeEnd(_, _)
CodeEnd(lines, i) ==
    IF i > Len(lines) THEN i
    ELSE IF StartsWith(lines[i], Fence3) THEN i + 1
    ELSE CodeEnd(lines, i + 1)

MC_parseCodeBlock(lines, startIndex, opts) ==
    LET given == Trim(Drop(lines[startIndex], 3))
        language == IF Len(given) > 0 THEN given ELSE opts.defaultCodeLanguage
        next == CodeEnd(lines, startIndex + 1)
        last == IF next <= Len(lines) + 1 /\ next - 1 > startIndex
                   /\ StartsWith(lines[next - 1], Fence3)
                THEN next - 2 ELSE next - 1
        codeLines == SubSeq(lines, startIndex + 1, last)
    IN  [node |-> codeBlock(JoinLines(codeLines), language), nextIndex |-> next]

\* parseTaskList(lines, startIndex)
RECURSIVE TaskListLoop(_, _, _)
TaskListLoop(lines, i, items) ==
    IF i > Len(lines) \/ ~taskMatch(lines[i]).ok
    THEN [node |-> taskList(items), nextIndex |-> i]
    ELSE TaskListLoop(lines, i + 1,
             Append(items, taskItem(parseInlineMarkdown(taskMatch(lines[i]).itemText),
                                    taskMatch(lines[i]).checked)))

MC_parseTaskList(lines, startIndex) == TaskListLoop(lines, startIndex, <<>>)

\* parseList(lines, startIndex, listType)
RECURSIVE ListLoop(_, _, _, _)
ListLoop(lines, i, listType, items) ==
    IF i > Len(lines) \/ ~listMatch(lines[i], listType).ok
    THEN [node |-> IF listType = "bullet" THEN bulletList(items)
                   ELSE orderedList(items),
          nextIndex |-> i]
    ELSE ListLoop(lines, i + 1, listType,
             Append(items, listItem(<<paragraph(
                 parseInlineMarkdown(listMatch(lines[i], listType).itemText))>>)))

MC_parseList(lines, startIndex, listType) == ListLoop(lines, startIndex, listType, <<>>)

\* parseTableRow(line)
MC_parseTableRow(line) ==
    LET noHead == IF Len(line) > 0 /\ line[1] = "|" THEN Tail(line) ELSE line
        noTail == IF Len(noHead) > 0 /\ noHead[Len(noHead)] = "|"
                  THEN SubSeq(noHead, 1, Len(noHead) - 1) ELSE noHead
        cells == SplitOnBar(Trim(noTail))
    IN  [k \in 1..Len(cells) |-> parseInlineMarkdown(Trim(cells[k]))]

RECURSIVE TableRowsLoop(_, _, _)
TableRowsLoop(lines, i, rows) ==
    IF i > Len(lines) \/ ~StartsWith(Trim(lines[i]), <<"|">>)
    THEN [ok |-> TRUE, node |-> tableNode(rows), nextIndex |-> i]
    ELSE LET cells == MC_parseTableRow(Trim(lines[i]))
         IN  TableRowsLoop(lines, i + 1,
                 Append(rows, tableRow([k \in 1..Len(cells) |->
                                           tableCell(<<paragraph(cells[k])>>)])))

\* parseTable(lines, startIndex): ok is FALSE where the source returns null
MC_parseTable(lines, startIndex) ==
    LET firstLine == Trim(lines[startIndex])
        headerCells == MC_parseTableRow(firstLine)
        none == [ok |-> FALSE, node |-> tableNode(<<>>), nextIndex |-> startIndex]
    IN  IF ~StartsWith(firstLine, <<"|">>) THEN none
        ELSE IF startIndex + 1 > Len(lines) THEN none
        ELSE IF ~separatorTest(Trim(lines[startIndex + 1])) THEN none
        ELSE TableRowsLoop(lines, startIndex + 2,
                 <<tableRow([k \in 1..Len(headerCells) |->
                                tableHeader(<<paragraph(headerCells[k])>>)])>>)

\* parseBlockQuote(lines, startIndex): the index after the quoted lines,
\* and the lines given to the inner convert
RECURSIVE QuoteEnd(_, _)
QuoteEnd(lines, i) ==
    IF i > Len(lines) \/ ~StartsWith(lines[i], <<">">>) THEN i
    ELSE QuoteEnd(lines, i + 1)

quoteLines(lines, startIndex) ==
    [k \in 1..(QuoteEnd(lines, startIndex) - startIndex) |->
        Trim(Drop(lines[startIndex + k - 1], 1))]

\* The branch of the loop of convert that takes a line (lines 91-173), in
\* the order of the tests.
LineKind(lines, i) ==
    LET line == lines[i]
    IN  IF Len(Trim(line)) = 0 THEN "blank"
        ELSE IF StartsWith(line, Fence3) THEN "code"
        ELSE IF headingMatch(line).ok THEN "heading"
        ELSE IF StartsWith(Trim(line), <<"|">>) /\ MC_parseTable(lines, i).ok
             THEN "table"
        ELSE IF taskMatch(line).test THEN "task"
        ELSE IF bulletMatch(line).test THEN "bullet"
        ELSE IF orderedMatch(line).test THEN "ordered"
        ELSE IF StartsWith(line, <<">">>) THEN "quote"
        ELSE IF hrTest(line) THEN "hr"
        ELSE "paragraph"

\* One activation of convert(markdown): the lines of markdown, the index i
\* (from 1), the local blocks, and the index the caller resumes at.
CvFrame(lines, resume) ==
    [lines |-> lines, i |-> 1, blocks |-> <<>>, entered |-> FALSE,
     resume |-> resume]

CvTop == cvStack[Len(cvStack)]
CvRunning == cvStatus = "running" /\ Len(cvStack) > 0
CvInLoop == CvRunning /\ CvTop.entered /\ CvTop.i <= Len(CvTop.lines)
CvAt(kind) == CvInLoop /\ LineKind(CvTop.lines, CvTop.i) = kind
CvOpts == resolveOptions(cvOptions)
CvIdleRest == UNCHANGED <<inlVars, blockVars, cvOptions, cvInput, cvCalls>>

\* blocks.push(node); i = nextIndex
CvPush(nodes, nextIndex) ==
    cvStack' = [cvStack EXCEPT ![Len(cvStack)] =
                   [@ EXCEPT !.blocks = @ \o nodes, !.i = nextIndex]]

\* "return doc(content)": to markdownToAdf, or to parseBlockQuote, which
\* wraps the content and returns to the loop of the outer convert.
CvReturnDoc(content) ==
    IF Len(cvStack) = 1
    THEN /\ cvStatus' = "done"
         /\ cvDoc' = content
         /\ cvStack' = <<>>
    ELSE /\ cvStack' = [SubSeq(cvStack, 1, Len(cvStack) - 1) EXCEPT
                ![Len(cvStack) - 1] =
                    [@ EXCEPT !.blocks = Append(@, blockQuote(content)),
                              !.i = CvTop.resume]]
         /\ UNCHANGED <<cvStatus, cvDoc>>

\* convert, lines 80-87
CvEnter ==
    /\ CvRunning /\ ~CvTop.entered
    /\ IF Len(Trim(JoinLines(CvTop.lines))) = 0
       THEN CvReturnDoc(<<paragraph(<<>>)>>)
       ELSE /\ cvStack' = [cvStack EXCEPT ![Len(cvStack)].entered = TRUE]
            /\ UNCHANGED <<cvStatus, cvDoc>>
    /\ UNCHANGED cvWarnings
    /\ CvIdleRest

\* lines 91-95
CvBlank ==
    /\ CvAt("blank")
    /\ CvPush(<<>>, CvTop.i + 1)
    /\ UNCHANGED <<cvWarnings, cvStatus, cvDoc>>
    /\ CvIdleRest

\* lines 97-103
CvCodeBlock ==
    /\ CvAt("code")
    /\ LET r == MC_parseCodeBlock(CvTop.lines, CvTop.i, CvOpts)
       IN  CvPush(<<r.node>>, r.nextIndex)
    /\ UNCHANGED <<cvWarnings, cvStatus, cvDoc>>
    /\ CvIdleRest

\* lines 105-119
CvHeading ==
    /\ CvAt("heading")
    /\ LET m == headingMatch(CvTop.lines[CvTop.i])
       IN  IF CvOpts.useHeadings /\ m.level <= CvOpts.maxHeadingLevel
           THEN CvPush(<<heading(m.level, parseInlineMarkdown(m.headingText))>>,
                       CvTop.i + 1)
           ELSE CvPush(<<paragraph(<<text(m.headingText, <<strong>>)>>)>>,
                       CvTop.i + 1)
    /\ UNCHANGED <<cvWarnings, cvStatus, cvDoc>>
    /\ CvIdleRest

\* lines 121-129
CvTable ==
    /\ CvAt("table")
    /\ LET r == MC_parseTable(CvTop.lines, CvTop.i)
       IN  CvPush(<<r.node>>, r.nextIndex)
    /\ UNCHANGED <<cvWarnings, cvStatus, cvDoc>>
    /\ CvIdleRest

\* lines 131-137
CvTaskList ==
    /\ CvAt("task")
    /\ LET r == MC_parseTaskList(CvTop.lines, CvTop.i)
           n == Len(r.node.content)
       IN  \E listId \in generateLocalId, ids \in [1..n -> generateLocalId] :
               CvPush(<<[withLocalId(r.node, listId) EXCEPT !.content =
                            [k \in 1..n |-> withLocalId(r.node.content[k], ids[k])]]>>,
                      r.nextIndex)
    /\ UNCHANGED <<cvWarnings, cvStatus, cvDoc>>
    /\ CvIdleRest

\* lines 139-153
CvList ==
    /\ CvInLoop /\ LineKind(CvTop.lines, CvTop.i) \in {"bullet", "ordered"}
    /\ LET r == MC_parseList(CvTop.lines, CvTop.i, LineKind(CvTop.lines, CvTop.i))
       IN  CvPush(<<r.node>>, r.nextIndex)
    /\ UNCHANGED <<cvWarnings, cvStatus, cvDoc>>
    /\ CvIdleRest

\* lines 155-161 and parseBlockQuote up to its call of convert
CvQuote ==
    /\ CvAt("quote")
    /\ cvStack' = Append(cvStack,
           CvFrame(quoteLines(CvTop.lines, CvTop.i), QuoteEnd(CvTop.lines, CvTop.i)))
    /\ UNCHANGED <<cvWarnings, cvStatus, cvDoc>>
    /\ CvIdleRest

\* lines 163-169
CvHr ==
    /\ CvAt("hr")
    /\ cvWarnings' = addWarning(cvWarnings, "unsupported_feature", "hr", CvTop.i)
    /\ CvPush(<<>>, CvTop.i + 1)
    /\ UNCHANGED <<cvStatus, cvDoc>>
    /\ CvIdleRest

\* lines 171-173
CvParagraph ==
    /\ CvAt("paragraph")
    /\ CvPush(<<paragraph(parseInlineMarkdown(CvTop.lines[CvTop.i]))>>, CvTop.i + 1)
    /\ UNCHANGED <<cvWarnings, cvStatus, cvDoc>>
    /\ CvIdleRest

\* line 176
CvReturn ==
    /\ CvRunning /\ CvTop.entered /\ CvTop.i > Len(CvTop.lines)
    /\ CvReturnDoc(CvTop.blocks)
    /\ UNCHANGED cvWarnings
    /\ CvIdleRest

\* The markdown texts tried, as their lines.
LineChoices ==
    { <<"#", "#", " ", "a">>, <<"#", " ", "a">>, <<"a">>, <<>>,
      <<"-", "-", "-">>, <<"-", " ", "a">>, <<"-", " ", "[", "x", "]", " ", "a">>,
      <<"1", ".", " ", "a">>, <<">", " ", "a">>, <<">", " ", "#", " ", "a">>,
      Fence3, <<"|", "a", "|">>, <<"|", "-", "|">> }

Markdowns == UNION { [1..n -> LineChoices] : n \in 1..MaxLines }

CvUserOptions ==
    [preset : {Unset, "comment", "task", "story"},
     strictMode : {Unset},
     useHeadings : {Unset, "true", "false"},
     maxHeadingLevel : {0, 1},
     preserveLineBreaks : {Unset},
     warnOnRiskyNodes : {Unset},
     defaultCodeLanguage : {UnsetText}]

(***************************************************************************)
(* Specifications.                                                         *)
(***************************************************************************)
CvIdle ==
    /\ cvOptions = [preset |-> Unset, strictMode |-> Unset, useHeadings |-> Unset,
                    maxHeadingLevel |-> 0, preserveLineBreaks |-> Unset,
                    warnOnRiskyNodes |-> Unset, defaultCodeLanguage |-> UnsetText]
    /\ cvInput = <<>>
    /\ cvStack = <<>>
    /\ cvWarnings = <<>>
    /\ cvStatus = "idle"
    /\ cvDoc = <<>>
    /\ cvCalls = <<>>

InlineIdle ==
    /\ inlOpts = [preserveLineBreaks |-> FALSE, stripTaskCheckbox |-> FALSE]
    /\ inlState = InlineStart
    /\ inlCount = 0
    /\ inlLast = ITok("none")

BlockIdle ==
    /\ userOptions = [preset |-> Unset, strictMode |-> Unset, useHeadings |-> Unset,
                      maxHeadingLevel |-> 0, preserveLineBreaks |-> Unset,
                      warnOnRiskyNodes |-> Unset, defaultCodeLanguage |-> UnsetText]
    /\ tokens = <<>>
    /\ preset = "default"
    /\ options = resolveOptions(userOptions)
    /\ stack = <<>>
    /\ warnings = <<>>
    /\ status = "idle"
    /\ result = <<>>
    /\ error = NoError
    /\ listLog = <<>>
    /\ itemLog = <<>>

\* new BlockParser({options: resolveOptions(o), preset, warnings: []}) and the
\* entry of parse(tokens).
Init ==
    /\ InlineIdle
    /\ CvIdle
    /\ tokens \in Docs
    /\ userOptions \in UserOptions(tokens)
    /\ preset = (IF userOptions.preset = Unset THEN "default" ELSE userOptions.preset)
    /\ options = resolveOptions(userOptions)
    /\ stack = <<Frame("blocks", 1, 0)>>
    /\ warnings = <<>>
    /\ status = "running"
    /\ result = <<>>
    /\ error = NoError
    /\ listLog = <<>>
    /\ itemLog = <<>>

Next ==
    \/ BlocksParagraph
    \/ BlocksHeading
    \/ ListOpen
    \/ BlockquoteOpen
    \/ CodeBlockToken
    \/ TableOpen
    \/ HrToken
    \/ BlocksInline
    \/ DefaultToken
    \/ ItemParagraph
    \/ ItemInline
    \/ ParseReturn
    \/ BlockQuoteReturn
    \/ ListItemOpen
    \/ ListSkip
    \/ ListReturn
    \/ ItemReturn

Spec == Init /\ [][Next]_vars

\* BlockParser.parse runs to its end without being suspended: a step that
\* can be taken is taken.  The streams are those of Docs with one item per
\* list and the one small table, with and without their close tokens.
LiveDocs ==
    HeadingBlocks \cup LeafBlocks \cup Truncated \cup Unclosed
    \cup UNION { {BulletList(x), OrderedList(x)} : x \in ItemAlone \cup ItemCore }
    \cup { Quote(b) : b \in LeafBlocks \cup {Heading(2, Ka), <<>>} }
    \cup { Hr \o Heading(2, Ka), Para(Ka) \o Hr \o Para(Ka), Nested,
           Quote(Quote(Para(Ka))), BulletList(Para(Ka)), <<>> }

InitLive ==
    /\ InlineIdle
    /\ CvIdle
    /\ tokens \in LiveDocs
    /\ userOptions \in UserOptions(tokens)
    /\ preset = (IF userOptions.preset = Unset THEN "default" ELSE userOptions.preset)
    /\ options = resolveOptions(userOptions)
    /\ stack = <<Frame("blocks", 1, 0)>>
    /\ warnings = <<>>
    /\ status = "running"
    /\ result = <<>>
    /\ error = NoError
    /\ listLog = <<>>
    /\ itemLog = <<>>

SpecLive == InitLive /\ [][Next]_vars /\ WF_vars(Next)

InitInline ==
    /\ BlockIdle
    /\ CvIdle
    /\ inlOpts \in [preserveLineBreaks : BOOLEAN, stripTaskCheckbox : BOOLEAN]
    /\ inlState = InlineStart
    /\ inlCount = 0
    /\ inlLast = ITok("none")

NextInline == InlineToken

SpecInline == InitInline /\ [][NextInline]_vars

\* markdownToAdf(markdown, options): new MarkdownConverter(options) and the
\* call of convert(markdown).
InitConverter ==
    /\ InlineIdle
    /\ BlockIdle
    /\ cvOptions \in CvUserOptions
    /\ cvInput \in Markdowns
    /\ cvStack = <<CvFrame(cvInput, 0)>>
    /\ cvWarnings = <<>>
    /\ cvStatus = "running"
    /\ cvDoc = <<>>
    /\ cvCalls = <<>>

NextConverter ==
    \/ CvEnter
    \/ CvBlank
    \/ CvCodeBlock
    \/ CvHeading
    \/ CvTable
    \/ CvTaskList
    \/ CvList
    \/ CvQuote
    \/ CvHr
    \/ CvParagraph
    \/ CvReturn

SpecConverter == InitConverter /\ [][NextConverter]_vars

\* Several markdownToAdf calls of one process, one after another.  The texts
\* between them reach every branch of convert; the options are the default
\* and the story preset.
CallInputs ==
    { << <<"#", "#", " ", "a">>, <<"-", "-", "-">>, <<"-", " ", "a">> >>,
      << <<"-", " ", "[", "x", "]", " ", "a">>, <<">", " ", "a">> >>,
      << <<>>, Fence3, <<"a">> >>,
      << <<"|", "a", "|">>, <<"|", "-", "|">> >> }
CallOptions ==
    [preset : {Unset, "story"},
     strictMode : {Unset},
     useHeadings : {Unset},
     maxHeadingLevel : {0},
     preserveLineBreaks : {Unset},
     warnOnRiskyNodes : {Unset},
     defaultCodeLanguage : {UnsetText}]

CvNewCall_KeepsWarnings ==
    /\ cvStatus = "done"
    /\ Len(cvCalls) + 1 < MaxCalls
    /\ cvCalls' = Append(cvCalls, [input |-> cvInput, options |-> cvOptions,
                                   doc |-> cvDoc, warnings |-> cvWarnings])
    /\ \E o \in CallOptions, m \in CallInputs :
          /\ cvOptions' = o
          /\ cvInput' = m
          /\ cvStack' = <<CvFrame(m, 0)>>
    /\ cvStatus' = "running"
    /\ cvDoc' = <<>>
    /\ UNCHANGED <<cvWarnings, inlVars, blockVars>>

\* markdownToAdf called again after it returned (lines 58-74): a new
\* MarkdownConverter, whose field initialiser gives it a new empty warnings
\* array and whose constructor resolves the options of this call.
CvNewCall ==
    /\ cvStatus = "done"
    /\ Len(cvCalls) + 1 < MaxCalls
    /\ cvCalls' = Append(cvCalls, [input |-> cvInput, options |-> cvOptions,
                                   doc |-> cvDoc, warnings |-> cvWarnings])
    /\ \E o \in CallOptions, m \in CallInputs :
          /\ cvOptions' = o
          /\ cvInput' = m
          /\ cvStack' = <<CvFrame(m, 0)>>
    /\ cvWarnings' = <<>>
    /\ cvStatus' = "running"
    /\ cvDoc' = <<>>
    /\ UNCHANGED <<inlVars, blockVars>>

InitCalls ==
    /\ InlineIdle
    /\ BlockIdle
    /\ cvOptions \in CallOptions
    /\ cvInput \in CallInputs
    /\ cvStack = <<CvFrame(cvInput, 0)>>
    /\ cvWarnings = <<>>
    /\ cvStatus = "running"
    /\ cvDoc = <<>>
    /\ cvCalls = <<>>

NextCalls ==
    \/ NextConverter
    \/ CvNewCall

SpecCalls == InitCalls /\ [][NextCalls]_vars

(***************************************************************************)
(* What the properties read: the nodes of a tree, the warnings of a line,  *)
(* and the tokens that lie directly in a container of the token stream.    *)
(***************************************************************************)
RECURSIVE NodesIn(_)
NodesIn(seq) ==
    UNION { {seq[k]} \cup NodesIn(seq[k].content) : k \in 1..Len(seq) }

WarningsAt(log, type, line) ==
    Cardinality({ k \in 1..Len(log) : log[k].type = type /\ log[k].line = line })

OpenTypes ==
    {"paragraph_open", "heading_open", "bullet_list_open", "ordered_list_open",
     "list_item_open", "blockquote_open", "table_open", "thead_open",
     "tbody_open", "tr_open", "th_open", "td_open"}
CloseTypes ==
    {"paragraph_close", "heading_close", "bullet_list_close", "ordered_list_close",
     "list_item_close", "blockquote_close", "table_close", "thead_close",
     "tbody_close", "tr_close", "th_close", "td_close"}

\* The indices, from i on, of the tokens at nesting depth 0, up to the close
\* token of the container whose body starts at i.
RECURSIVE OwnTokens(_, _, _)
OwnTokens(toks, i, depth) ==
    IF i > Len(toks) THEN <<>>
    ELSE IF toks[i].type \in CloseTypes
         THEN IF depth = 0 THEN <<>> ELSE OwnTokens(toks, i + 1, depth - 1)
    ELSE (IF depth = 0 THEN <<i>> ELSE <<>>)
         \o OwnTokens(toks, i + 1,
                      IF toks[i].type \in OpenTypes THEN depth + 1 ELSE depth)

\* The list_item_open tokens of the list opened at token start.
OwnItems(toks, start) ==
    LET IsItem(i) == toks[i].type = "list_item_open"
    IN  SelectSeq(OwnTokens(toks, start + 1, 0), IsItem)

\* The blocks of the item opened at token start other than horizontal rules
\* and unknown tokens, and the inline tokens that hold its own text.
OwnBlocks(toks, start) ==
    LET IsBlock(i) == toks[i].type \in
            {"paragraph_open", "inline", "fence", "code_block", "table_open",
             "bullet_list_open", "ordered_list_open", "blockquote_open"}
    IN  SelectSeq(OwnTokens(toks, start + 1, 0), IsBlock)

OwnInlines(toks, start) ==
    LET HasInline(i) ==
            \/ toks[i].type = "inline"
            \/ toks[i].type = "paragraph_open" /\ TokAt(toks, i + 1).type = "inline"
        own == SelectSeq(OwnTokens(toks, start + 1, 0), HasInline)
    IN  [k \in 1..Len(own) |->
            IF toks[own[k]].type = "inline" THEN own[k] ELSE own[k] + 1]

HasCheckedBox(tok) ==
    \E k \in 1..Len(tok.children) :
        /\ tok.children[k].type = "html_inline"
        /\ tok.children[k].isCheckbox
        /\ tok.children[k].checked

NoRepeatedMark(marks) ==
    \A i, j \in 1..Len(marks) : i # j => marks[i].type # marks[j].type

CvPreset == IF cvOptions.preset = Unset THEN "default" ELSE cvOptions.preset

(***************************************************************************)
(* C1: a heading is emitted as a Heading node if and only if the preset is *)
(* story or default, useHeadings is true and the level is at most          *)
(* maxHeadingLevel.  Stated of markdownToAdf as converter.ts defines it:   *)
(* the block a heading line adds is a Heading exactly under those three    *)
(* conditions.  The code emits a Heading under comment and task as well.   *)
(***************************************************************************)
C1_HeadingIffPresetOptInAndLevel ==
    [][CvHeading =>
        LET m == headingMatch(CvTop.lines[CvTop.i])
            blocks == cvStack'[Len(cvStack')].blocks
        IN  (blocks[Len(blocks)].type = "heading")
            <=> (/\ CvPreset \in {"story", "default"}
                 /\ CvOpts.useHeadings
                 /\ m.level <= CvOpts.maxHeadingLevel)]_vars

C1_HeadingUnderComment ==
    /\ cvStatus = "done"
    /\ CvPreset \in {"comment", "task"}
    /\ \E n \in NodesIn(cvDoc) : n.type = "heading"

(***************************************************************************)
(* C2: in non-strict mode every heading token that is downgraded to a bold *)
(* paragraph, whichever of the three conditions fails, appends a           *)
(* LossyConversion warning.  The code appends none when the only failing   *)
(* condition is that useHeadings is not set.                               *)
(***************************************************************************)
C2_DowngradeAlwaysWarns ==
    [][(/\ BlocksHeading
        /\ ~options.strictMode
        /\ ~(/\ preset \in {"story", "default"}
             /\ options.useHeadings
             /\ getHeadingLevel(Cur) <= options.maxHeadingLevel))
       => /\ Len(warnings') = Len(warnings) + 1
          /\ warnings'[Len(warnings')].type = "lossy_conversion"
          /\ warnings'[Len(warnings')].line = Top.i]_vars

C2_SilentDowngrade ==
    /\ status = "done"
    /\ warnings = <<>>
    /\ \E n \in NodesIn(result) :
          /\ n.type = "paragraph"
          /\ n.src > 0
          /\ tokens[n.src].type = "heading_open"

C4_ListItemContent ==
    /\ \A n \in NodesIn(result) :
          n.type = "listItem" =>
              /\ Len(n.content) >= 1
              /\ \A k \in 1..Len(n.content) :
                    n.content[k].type \in {"paragraph", "bulletList", "orderedList"}
    /\ \A k \in 1..Len(itemLog) :
          (/\ ~itemLog[k].asTask
           /\ \A j \in 1..Len(itemLog[k].blocks) :
                 itemLog[k].blocks[j].type
                     \notin {"paragraph", "bulletList", "orderedList"})
          => itemLog[k].listItem.content = <<paragraph(<<>>)>>

C4_ItemFilteredToEmptyParagraph ==
    /\ status = "done"
    /\ \E n \in NodesIn(result) :
          /\ n.type = "listItem"
          /\ n.content = <<paragraph(<<>>)>>
          /\ \E k \in 1..Len(itemLog) :
                /\ itemLog[k].start = n.src
                /\ Len(itemLog[k].blocks) >= 2

C6_OneListNodePerRun ==
    \A n \in 1..Len(listLog) :
        LET e == listLog[n]
            own == OwnItems(tokens, e.start)
            flat == Concat([k \in 1..Len(e.nodes) |-> e.nodes[k].content])
            IsTask(i) == e.listType = "bullet" /\ isTaskListItem(tokens, i)
            Kind(i) == IF IsTask(i) THEN "taskItem" ELSE "listItem"
        IN  /\ Len(flat) = Len(own)
            /\ \A j \in 1..Len(flat) :
                  flat[j].src = own[j] /\ flat[j].type = Kind(own[j])
            /\ \A k \in 1..Len(e.nodes) :
                  LET items == e.nodes[k].content
                  IN  /\ Len(items) >= 1
                      /\ \A j \in 1..Len(items) : items[j].type = items[1].type
                      /\ e.nodes[k].type =
                             IF items[1].type = "taskItem" THEN "taskList"
                             ELSE IF e.listType = "bullet" THEN "bulletList"
                             ELSE "orderedList"
            /\ \A k \in 1..(Len(e.nodes) - 1) :
                  e.nodes[k].type # e.nodes[k + 1].type
            /\ e.listType = "ordered" =>
                  \A k \in 1..Len(e.nodes) : e.nodes[k].type = "orderedList"

C6_ListSplitAtClassChange ==
    \E n \in 1..Len(listLog) :
        /\ Len(listLog[n].nodes) = 2
        /\ listLog[n].nodes[1].type = "taskList"
        /\ listLog[n].nodes[2].type = "bulletList"
        /\ Len(OwnItems(tokens, listLog[n].start)) = 2

(***************************************************************************)
(* C7: a task item's state is DONE exactly when the checkbox markup of     *)
(* that item is checked, and TODO otherwise, whatever else the item        *)
(* contains.  The code forgets a checked checkbox when no text follows it  *)
(* and the item has a further paragraph.                                   *)
(***************************************************************************)
C7_StateIsCheckbox ==
    \A k \in 1..Len(itemLog) :
        itemLog[k].asTask =>
            LET inl == OwnInlines(tokens, itemLog[k].start)
            IN  (itemLog[k].taskItem.state = "DONE")
                <=> (Len(inl) > 0 /\ HasCheckedBox(tokens[inl[1]]))

C7_CheckedItemIsTodo ==
    \E k \in 1..Len(itemLog) :
        /\ itemLog[k].asTask
        /\ itemLog[k].taskItem.state = "TODO"
        /\ HasCheckedBox(TokAt(tokens, itemLog[k].start + 2))

(***************************************************************************)
(* C8: a TaskItem's content holds only inline nodes, those of the first    *)
(* inline content of the item; every further block of the item is dropped, *)
(* and exactly one LossyConversion warning is recorded for a task item     *)
(* that had such further content, none for one that had not.  The code     *)
(* takes the content from the second paragraph, and records no warning,    *)
(* when the first inline content is empty once the checkbox is stripped.   *)
(***************************************************************************)
C8_TaskItemContentAndWarning ==
    \A k \in 1..Len(itemLog) :
        itemLog[k].asTask =>
            LET inl == OwnInlines(tokens, itemLog[k].start)
                first ==
                    IF Len(inl) = 0 THEN <<>>
                    ELSE trimLeadingSpace(
                             parseInlineTokens(tokens[inl[1]].children,
                                 [preserveLineBreaks |-> options.preserveLineBreaks,
                                  stripTaskCheckbox |-> TRUE]).nodes)
                item == itemLog[k].taskItem
            IN  /\ \A j \in 1..Len(item.content) :
                      item.content[j].type \in {"text", "hardBreak"}
                /\ item.content = first
                /\ WarningsAt(warnings, "lossy_conversion", itemLog[k].start)
                       = IF Len(OwnBlocks(tokens, itemLog[k].start)) >= 2
                         THEN 1 ELSE 0

C8_SecondParagraphKept ==
    \E k \in 1..Len(itemLog) :
        /\ itemLog[k].asTask
        /\ Len(OwnBlocks(tokens, itemLog[k].start)) >= 2
        /\ WarningsAt(warnings, "lossy_conversion", itemLog[k].start) = 0

(***************************************************************************)
(* C9: the output of the inline resolver never holds two adjacent Text     *)
(* nodes whose mark lists are identical (same types, same attribute        *)
(* values, same order).                                                    *)
(***************************************************************************)
C9_NoAdjacentTextWithSameMarks ==
    \A k \in 1..(Len(inlState.nodes) - 1) :
        ~(/\ inlState.nodes[k].type = "text"
          /\ inlState.nodes[k + 1].type = "text"
          /\ inlState.nodes[k].marks = inlState.nodes[k + 1].marks)

C9_TextSpaceTextMerged ==
    /\ inlCount = 3
    /\ inlLast.type = "text"
    /\ ~inlOpts.preserveLineBreaks
    /\ inlState.nodes = <<text(<<"a", " ", "a">>, <<>>)>>

(***************************************************************************)
(* C10: in every Text node of every output document each mark type appears*)
(* at most once.  The code appends Strong to text that is already strong   *)
(* when it downgrades a heading.                                           *)
(***************************************************************************)
C10_MarkTypeAtMostOnce ==
    status = "done" =>
        \A n \in NodesIn(result) : n.type = "text" => NoRepeatedMark(n.marks)

C10_StrongTwice ==
    /\ status = "done"
    /\ \E n \in NodesIn(result) : n.type = "text" /\ n.marks = <<strong, strong>>


(***************************************************************************)
(* C11: every document a conversion returns has at least one block, and    *)
(* the empty input yields exactly one content-less paragraph.  Stated of   *)
(* markdownToAdf as converter.ts defines it.  The code returns a document  *)
(* with no block when every line that is not blank is a horizontal rule.   *)
(***************************************************************************)
C11_DocumentHasABlock ==
    cvStatus = "done" =>
        /\ Len(cvDoc) >= 1
        /\ cvInput = << <<>> >> => cvDoc = <<paragraph(<<>>)>>

C11_EmptyDocument ==
    /\ cvStatus = "done"
    /\ cvDoc = <<>>
    /\ cvInput = << <<"-", "-", "-">> >>
    /\ Len(cvWarnings) = 1

C13_RiskyTableWarning ==
    status = "done" =>
        \A i \in 1..Len(tokens) :
            tokens[i].type = "table_open" =>
                /\ WarningsAt(warnings, "risky_feature", i) =
                       IF userOptions.warnOnRiskyNodes = "true" /\ preset = "comment"
                       THEN 1 ELSE 0
                /\ tokens = aTable => \E n \in NodesIn(result) : n.type = "table"

C13_RiskyTableSilent ==
    /\ status = "done"
    /\ tokens = aTable
    /\ userOptions.warnOnRiskyNodes = "true"
    /\ preset = "comment"
    /\ Len(result) = 1 /\ result[1].type = "table"
    /\ warnings = <<>>

(***************************************************************************)
(* C14: resolving the options of the comment preset with no override of    *)
(* warnOnRiskyNodes yields warnOnRiskyNodes enabled, so that a table       *)
(* converted with only the preset set to comment produces a RiskyFeature   *)
(* warning.                                                                *)
(***************************************************************************)
C14_CommentPresetEnablesRiskyWarnings ==
    (userOptions.preset = "comment" /\ userOptions.warnOnRiskyNodes = Unset) =>
        /\ options.warnOnRiskyNodes
        /\ (status = "done" /\ HasType(tokens, {"table_open"})) =>
               \E k \in 1..Len(warnings) : warnings[k].type = "risky_feature"

C14_CommentPresetTableNoWarning ==
    /\ status = "done"
    /\ tokens = aTable
    /\ userOptions.preset = "comment"
    /\ userOptions.warnOnRiskyNodes = Unset
    /\ ~options.warnOnRiskyNodes
    /\ \A k \in 1..Len(warnings) : warnings[k].type # "risky_feature"
    /\ \E n \in NodesIn(result) : n.type = "table"

(***************************************************************************)
(* C15: every hr token, at the top level, inside a block quote or inside a *)
(* list item: in strict mode the conversion aborts with an                 *)
(* UnsupportedFeature error; otherwise it appends exactly one              *)
(* UnsupportedFeature warning and emits no node for the rule.              *)
(***************************************************************************)
C15_HorizontalRule ==
    /\ [][(InSwitch /\ Cur.type = "hr") =>
            IF options.strictMode
            THEN /\ status' = "threw"
                 /\ error'.type = "unsupported_feature"
                 /\ error'.line = Top.i
                 /\ warnings' = warnings
            ELSE /\ status' = "running"
                 /\ warnings' = Append(warnings,
                        [type |-> "unsupported_feature", msg |-> "hr", line |-> Top.i])
                 /\ Len(stack') = Len(stack)
                 /\ stack'[Len(stack')].nodes = Top.nodes
                 /\ stack'[Len(stack')].i = Top.i + 1]_vars
    /\ [](status = "done" =>
            \A i \in 1..Len(tokens) :
                tokens[i].type = "hr" =>
                    /\ ~options.strictMode
                    /\ WarningsAt(warnings, "unsupported_feature", i) = 1)

C15_RuleInsideQuoteWarned ==
    /\ status = "done"
    /\ tokens = Quote(Hr)
    /\ preset = "story"
    /\ Len(result) = 1
    /\ result[1].type = "blockQuote"
    /\ result[1].content = <<>>
    /\ Len(warnings) = 1
    /\ warnings[1].type = "unsupported_feature"

(***************************************************************************)
(* C16: a conversion aborts only when strictMode is set and the offending  *)
(* token is a heading or a horizontal rule.  In non-strict mode no token   *)
(* sequence aborts; in strict mode dropped list-item content, dropped      *)
(* task-item content and unwrapped block quotes append warnings only, and  *)
(* the conversion goes on to return a document.                            *)
(***************************************************************************)
C16_AbortOnlyOnHeadingOrRule ==
    /\ [](status = "threw" =>
            /\ options.strictMode
            /\ error.line \in 1..Len(tokens)
            /\ tokens[error.line].type \in {"heading_open", "hr"})
    /\ [][status' = "threw" =>
            /\ InSwitch
            /\ Cur.type \in {"heading_open", "hr"}
            /\ error'.line = Top.i]_vars
    /\ [][(Len(warnings') > Len(warnings)
           /\ warnings'[Len(warnings')].type = "lossy_conversion"
           /\ warnings'[Len(warnings')].msg \in
                  {"task_extra", "list_item_dropped", "blockquote_comment"}) =>
            /\ status' = "running"
            /\ Len(stack') > 0]_vars
    /\ [](status = "running" => Len(stack) > 0)

C16_StrictStillReturnsDocument ==
    /\ status = "done"
    /\ options.strictMode
    /\ preset = "comment"
    /\ tokens = BulletList(Item(FALSE, aFence \o Quote(Para(Ka))))
    /\ \E k \in 1..Len(warnings) : warnings[k].msg = "blockquote_comment"
    /\ \E k \in 1..Len(warnings) : warnings[k].msg = "list_item_dropped"
    /\ Len(result) = 1

C19_CodeBlockLanguageAndText ==
    [][(InSwitch /\ Cur.type \in {"fence", "code_block"}) =>
         LET after == stack'[Len(stack')].nodes
             node == after[Len(after)]
             code == node.content[1].text
             blank == \A k \in 1..Len(Cur.info) : IsSpace(Cur.info[k])
         IN  /\ Len(stack') = Len(stack)
             /\ Len(after) = Len(Top.nodes) + 1
             /\ SubSeq(after, 1, Len(Top.nodes)) = Top.nodes
             /\ node.type = "codeBlock"
             /\ Len(node.content) = 1
             /\ node.content[1].type = "text"
             /\ node.content[1].marks = <<>>
             /\ IF blank
                THEN node.language =
                         IF userOptions.defaultCodeLanguage = UnsetText
                         THEN <<"t", "e", "x", "t">>
                         ELSE userOptions.defaultCodeLanguage
                ELSE /\ node.language = Trim(Cur.info)
                     /\ Len(node.language) > 0
                     /\ ~IsSpace(node.language[1])
                     /\ ~IsSpace(node.language[Len(node.language)])
             /\ IF Len(Cur.content) > 0 /\ Cur.content[Len(Cur.content)] = "\n"
                THEN code \o <<"\n">> = Cur.content
                ELSE code = Cur.content
             /\ warnings' = warnings]_vars

C19_OneNewlineRemoved ==
    /\ status = "done"
    /\ tokens = Fence(<<" ", "j", " ">>, <<"a", "\n", "\n">>)
    /\ Len(result) = 1
    /\ result[1].type = "codeBlock"
    /\ result[1].language = <<"j">>
    /\ result[1].content[1].text = <<"a", "\n">>

(***************************************************************************)
(* C20: in a table every cell of a header-section row becomes a            *)
(* TableHeader and every cell of a body-section row a TableCell; rows and  *)
(* cells keep their source order and count; the content of each cell is    *)
(* exactly one Paragraph, content-less when the cell has no inline         *)
(* content.  The rows and cells are read off the token stream by position. *)
(***************************************************************************)
C20_TableRowsAndCells ==
    [][(InSwitch /\ Cur.type = "table_open") =>
         LET after == stack'[Len(stack')].nodes
             node == after[Len(after)]
             Between(a, b) == [k \in 1..(b - a - 1) |-> a + k]
             CloseOf(a, t) ==
                 IF \E j \in (a + 1)..Len(tokens) : tokens[j].type = t
                 THEN CHOOSE j \in (a + 1)..Len(tokens) :
                          /\ tokens[j].type = t
                          /\ \A h \in (a + 1)..(j - 1) : tokens[h].type # t
                 ELSE Len(tokens) + 1
             IsRow(j) == tokens[j].type = "tr_open"
             IsCell(j) == tokens[j].type \in {"th_open", "td_open"}
             rowAt == SelectSeq(Between(Top.i, CloseOf(Top.i, "table_close")), IsRow)
             cellAt(p) == SelectSeq(Between(p, CloseOf(p, "tr_close")), IsCell)
             InHead(p) ==
                 \E h \in (Top.i + 1)..(p - 1) :
                     /\ tokens[h].type = "thead_open"
                     /\ \A j \in h..p : tokens[j].type # "thead_close"
         IN  /\ Len(after) = Len(Top.nodes) + 1
             /\ node.type = "table"
             /\ Len(node.content) = Len(rowAt)
             /\ \A r \in 1..Len(rowAt) :
                  LET row == node.content[r]
                      at == cellAt(rowAt[r])
                  IN  /\ row.type = "tableRow"
                      /\ Len(row.content) = Len(at)
                      /\ \A c \in 1..Len(at) :
                           LET cell == row.content[c]
                               inl == tokens[at[c] + 1]
                           IN  /\ cell.type = IF InHead(rowAt[r]) THEN "tableHeader"
                                              ELSE "tableCell"
                               /\ Len(cell.content) = 1
                               /\ cell.content[1].type = "paragraph"
                               /\ cell.content[1].content = parseInline(inl, options)
                               /\ inl.children = <<>> =>
                                      cell.content[1] = paragraph(<<>>)]_vars

C20_TwoColumnTable ==
    /\ status = "done"
    /\ tokens = Table(Row(Cell("th_open", "th_close", Ka) \o Cell("th_open", "th_close", Kempty)),
                      Row(Cell("td_open", "td_close", Kempty) \o Cell("td_open", "td_close", Ka))
                      \o Row(Cell("td_open", "td_close", Ka) \o Cell("td_open", "td_close", Ka)))
    /\ Len(result) = 1
    /\ result[1].type = "table"
    /\ Len(result[1].content) = 3
    /\ result[1].content[1].content[2] = tableHeader(<<paragraph(<<>>)>>)
    /\ result[1].content[2].content[1] = tableCell(<<paragraph(<<>>)>>)
    /\ result[1].content[3].content[2].type = "tableCell"

(***************************************************************************)
(* C21: conversion calls share no mutable state.  The document, apart from *)
(* the generated identifiers, and the warning list of a call depend only   *)
(* on the input and the options of that call: two calls of one process     *)
(* with the same input and options return the same, whichever calls ran    *)
(* before or between them; and the warning log of each call starts empty.  *)
(***************************************************************************)
RECURSIVE StripIds(_)
StripIds(seq) ==
    [k \in 1..Len(seq) |->
        [seq[k] EXCEPT !.localId = "", !.content = StripIds(@)]]

ReturnedCalls ==
    cvCalls \o (IF cvStatus = "done"
                THEN <<[input |-> cvInput, options |-> cvOptions,
                        doc |-> cvDoc, warnings |-> cvWarnings]>>
                ELSE <<>>)

C22_TaskItemByOwnMarkup ==
    \A k \in 1..Len(itemLog) :
        itemLog[k].asTask =>
            \/ hasTaskItemClass(tokens[itemLog[k].start])
            \/ \E j \in 1..Len(OwnInlines(tokens, itemLog[k].start)) :
                  inlineHasTaskCheckbox(tokens[OwnInlines(tokens, itemLog[k].start)[j]])

C22_NestedCheckboxMakesOuterTask ==
    /\ status = "done"
    /\ tokens = BulletList(Item(FALSE, Para(Ka) \o BulletList(Item(TRUE, Para(KcbOn)))))
    /\ Len(result) = 1
    /\ result[1].type = "taskList"
    /\ Len(result[1].content) = 1
    /\ result[1].content[1].type = "taskItem"
    /\ result[1].content[1].state = "TODO"
    /\ \E k \in 1..Len(warnings) : warnings[k].msg = "task_extra"

(***************************************************************************)
(* C23: a heading token inside a list item is subject to the heading       *)
(* policy like a heading anywhere else: in non-strict mode it is never     *)
(* dropped or changed into another form without a LossyConversion warning, *)
(* and with strictMode under a preset that disallows headings it aborts    *)
(* the conversion.                                                         *)
(***************************************************************************)
C23_HeadingInsideItemFollowsPolicy ==
    (status = "done" /\ tokens = BulletList(Item(FALSE, Heading(1, Ka)))) =>
        /\ ~(options.strictMode /\ preset \in {"comment", "task"})
        /\ \/ \E n \in NodesIn(result) : n.type = "heading"
           \/ \E k \in 1..Len(warnings) : warnings[k].type = "lossy_conversion"

C23_HeadingInsideItemSilentlyPlain ==
    /\ status = "done"
    /\ tokens = BulletList(Item(FALSE, Heading(1, Ka)))
    /\ options.strictMode
    /\ preset = "comment"
    /\ warnings = <<>>
    /\ Len(result) = 1
    /\ result[1].type = "bulletList"
    /\ result[1].content[1].content = <<paragraph(<<text(txtA, <<>>)>>)>>

(***************************************************************************)
(* C24: a link-close token whose link-open carried no href leaves the      *)
(* active-mark list unchanged: it removes neither the Link mark of an      *)
(* enclosing link that is still open nor any other mark.  Stated of the    *)
(* close token that directly follows an href-less open token.              *)
(***************************************************************************)
C24_HreflessLinkCloseIsNoOp ==
    [][(/\ inlLast.type = "link_open"
        /\ inlLast.href = ""
        /\ inlCount' = inlCount + 1
        /\ inlLast'.type = "link_close") =>
            inlState'.marks = inlState.marks]_vars

C24_HreflessLinkInsideOpenLink ==
    /\ inlCount = 2
    /\ inlLast = ILink("", "")
    /\ inlState.marks = <<link("u", "t")>>
    /\ inlState.nodes = <<>>

(***************************************************************************)
(* C25: a mark-close token removes exactly one mark, the open mark of the  *)
(* matching type nearest the end of the active list, and leaves every      *)
(* other active mark and their relative order unchanged; when no mark of   *)
(* that type is open it changes nothing.                                   *)
(***************************************************************************)
C25_CloseRemovesNearestMark ==
    [][(/\ inlCount' = inlCount + 1
        /\ inlLast'.type \in {"strong_close", "em_close", "s_close", "del_close",
                              "link_close"}) =>
         LET type == CASE inlLast'.type = "strong_close" -> "strong"
                       [] inlLast'.type = "em_close" -> "em"
                       [] inlLast'.type = "link_close" -> "link"
                       [] OTHER -> "strike"
             marks == inlState.marks
             open == { k \in 1..Len(marks) : marks[k].type = type }
         IN  /\ inlState'.nodes = inlState.nodes
             /\ inlState'.taskChecked = inlState.taskChecked
             /\ IF open = {}
                THEN inlState'.marks = marks
                ELSE \E k \in open :
                        /\ \A j \in open : j <= k
                        /\ Len(inlState'.marks) = Len(marks) - 1
                        /\ \A j \in 1..(k - 1) : inlState'.marks[j] = marks[j]
                        /\ \A j \in k..(Len(marks) - 1) :
                              inlState'.marks[j] = marks[j + 1]]_vars

C25_InnerOfTwoStrongClosed ==
    /\ inlCount = 4
    /\ inlLast.type = "strong_close"
    /\ inlState.marks = <<strong, em>>
    /\ inlState.nodes = <<>>

(***************************************************************************)
(* C26: a soft break emits a HardBreak node when preserveLineBreaks is     *)
(* set; otherwise it contributes a single space that is merged into the    *)
(* neighbouring text with the same marks, so that text, softbreak, text    *)
(* under unchanged marks is one Text node; a hard break token always emits *)
(* a HardBreak node, whatever the option.                                  *)
(***************************************************************************)
C26_SoftAndHardBreaks ==
    [][(inlCount' = inlCount + 1) =>
         LET nodes == inlState.nodes
             after == inlState'.nodes
             n == Len(nodes)
             mergeable == /\ n > 0
                          /\ nodes[n].type = "text"
                          /\ nodes[n].marks = inlState.marks
             Extended(value) ==
                 IF mergeable
                 THEN /\ Len(after) = n
                      /\ SubSeq(after, 1, n - 1) = SubSeq(nodes, 1, n - 1)
                      /\ after[n].type = "text"
                      /\ after[n].text = nodes[n].text \o value
                      /\ after[n].marks = inlState.marks
                 ELSE /\ Len(after) = n + 1
                      /\ SubSeq(after, 1, n) = nodes
                      /\ after[n + 1].type = "text"
                      /\ after[n + 1].text = value
                      /\ after[n + 1].marks = inlState.marks
         IN  /\ (inlLast'.type = "hardbreak"
                 \/ (inlLast'.type = "softbreak" /\ inlOpts.preserveLineBreaks)) =>
                    /\ Len(after) = n + 1
                    /\ SubSeq(after, 1, n) = nodes
                    /\ after[n + 1].type = "hardBreak"
                    /\ inlState'.marks = inlState.marks
             /\ (inlLast'.type = "softbreak" /\ ~inlOpts.preserveLineBreaks) =>
                    /\ Extended(<<" ">>)
                    /\ inlState'.marks = inlState.marks
             /\ (inlLast'.type = "text" /\ inlLast'.content # <<>>) =>
                    Extended(inlLast'.content)]_vars

C26_SoftBreakMergedAsSpace ==
    /\ inlCount = 2
    /\ inlLast.type = "softbreak"
    /\ ~inlOpts.preserveLineBreaks
    /\ inlState.nodes = <<text(<<"a", " ">>, <<>>)>>

CloseFor(type) ==
    CASE type = "paragraph_open" -> "paragraph_close"
      [] type = "heading_open" -> "heading_close"
      [] type = "bullet_list_open" -> "bullet_list_close"
      [] type = "ordered_list_open" -> "ordered_list_close"
      [] type = "list_item_open" -> "list_item_close"
      [] type = "blockquote_open" -> "blockquote_close"
      [] type = "table_open" -> "table_close"
      [] type = "thead_open" -> "thead_close"
      [] type = "tbody_open" -> "tbody_close"
      [] type = "tr_open" -> "tr_close"
      [] type = "th_open" -> "th_close"
      [] OTHER -> "td_close"

\* Every open token of the stream has its close token, properly nested.
RECURSIVE Balanced(_, _, _)
Balanced(toks, i, expect) ==
    IF i > Len(toks) THEN expect = <<>>
    ELSE IF toks[i].type \in OpenTypes
         THEN Balanced(toks, i + 1, <<CloseFor(toks[i].type)>> \o expect)
    ELSE IF toks[i].type \in CloseTypes
         THEN /\ expect # <<>>
              /\ Head(expect) = toks[i].type
              /\ Balanced(toks, i + 1, Tail(expect))
    ELSE Balanced(toks, i + 1, expect)

\* The index of the close token of the container whose body starts at i.
RECURSIVE CloseIndex(_, _, _)
CloseIndex(toks, i, depth) ==
    IF i > Len(toks) THEN i
    ELSE IF toks[i].type \in CloseTypes
         THEN IF depth = 0 THEN i ELSE CloseIndex(toks, i + 1, depth - 1)
    ELSE CloseIndex(toks, i + 1,
                    IF toks[i].type \in OpenTypes THEN depth + 1 ELSE depth)

\* C28: every run of the resolver reaches its end; each step moves a cursor
\* forward inside the stream, a helper returns past its own close token (or
\* at the end of a stream that lacks it), and a finished run has no call open.
C28_ResolverTerminates ==
    /\ <>(status \in {"done", "threw"})
    /\ [][status' = "running" =>
            \/ /\ Len(stack') = Len(stack)
               /\ stack'[Len(stack')].i > Top.i
               /\ Top.i <= Len(tokens)
            \/ /\ Len(stack') = Len(stack) + 1
               /\ stack'[Len(stack')].i = Top.i + 1
               /\ stack'[Len(stack')].start = Top.i
               /\ Top.i <= Len(tokens)
               /\ \A k \in 1..Len(stack) : stack'[k].i = stack[k].i
            \/ /\ Len(stack') = Len(stack) - 1
               /\ stack'[Len(stack')].i > stack[Len(stack')].i
               /\ stack'[Len(stack')].i >= Top.i
               /\ IF Top.i <= Len(tokens)
                  THEN /\ tokens[Top.i].type = CloseFor(tokens[Top.start].type)
                       /\ stack'[Len(stack')].i = Top.i + 1
                       /\ Balanced(tokens, 1, <<>>) =>
                              Top.i = CloseIndex(tokens, Top.start + 1, 0)
                  ELSE CloseIndex(tokens, Top.start + 1, 0) > Len(tokens)
                       \/ ~Balanced(tokens, 1, <<>>)]_vars
    /\ [](status = "done" => stack = <<>>)

C28_UnclosedQuoteRunsToTheEnd ==
    /\ status = "done"
    /\ tokens = BulletList(Item(FALSE, <<Tok("blockquote_open")>> \o Para(Ka))) \o Para(Ka)
    /\ preset = "story"
    /\ Len(result) = 1
    /\ result[1].type = "bulletList"
    /\ Len(itemLog) = 1
    /\ Len(itemLog[1].blocks) = 1
    /\ itemLog[1].blocks[1].type = "blockQuote"
    /\ Len(itemLog[1].blocks[1].content) = 2

(***************************************************************************)
(* C29: the warning log is append-only and ordered by when the resolver    *)
(* finishes a construct, not by source line: a container's warning comes   *)
(* after every warning raised inside the container, and an entry once      *)
(* appended is never removed or changed during the call.                   *)
(***************************************************************************)
ContainerOpens == {"blockquote_open", "list_item_open", "table_open"}

\* The token at which the resolver finishes the construct a warning is about:
\* the close token of a container, the token itself otherwise.
FinishedAt(w) ==
    IF tokens[w.line].type \in ContainerOpens
    THEN CloseIndex(tokens, w.line + 1, 0)
    ELSE w.line

\* C29: each step keeps the log it found as a prefix of the log it leaves and
\* appends at most one entry; the entries stand in the order in which their
\* constructs were finished, so no entry raised inside a container follows the
\* container's own entry.
C29_WarningLogAppendOnlyByFinish ==
    /\ [][/\ Len(warnings') \in {Len(warnings), Len(warnings) + 1}
          /\ SubSeq(warnings', 1, Len(warnings)) = warnings]_vars
    /\ [](\A p, q \in 1..Len(warnings) :
            p < q => /\ FinishedAt(warnings[p]) < FinishedAt(warnings[q])
                     /\ ~(/\ tokens[warnings[p].line].type \in ContainerOpens
                          /\ warnings[p].line < warnings[q].line
                          /\ warnings[q].line < FinishedAt(warnings[p])))

C29_QuoteWarningAfterNestedWarning ==
    /\ status = "done"
    /\ Len(warnings) = 2
    /\ tokens[warnings[2].line].type = "blockquote_open"
    /\ warnings[1].line > warnings[2].line
    /\ warnings[1].line < FinishedAt(warnings[2])

(***************************************************************************)
(* C30: no list node in the output is empty: every BulletList, OrderedList *)
(* and TaskList emitted has at least one item, and a source list that      *)
(* contains no list items yields no output node at all.                    *)
(***************************************************************************)
ListNodeTypes == {"bulletList", "orderedList", "taskList"}

\* The first token after i that ends the scan of a list without items: its
\* close token, a list_item_open, or the end of the stream.
RECURSIVE FirstItemOrClose(_, _, _)
FirstItemOrClose(toks, i, close) ==
    IF i > Len(toks) THEN i
    ELSE IF toks[i].type \in {close, "list_item_open"} THEN i
    ELSE FirstItemOrClose(toks, i + 1, close)

HasNoItems(start, listType) ==
    LET j == FirstItemOrClose(tokens, start + 1, closeType(listType))
    IN  j > Len(tokens) \/ tokens[j].type # "list_item_open"

\* C30: every list node parseList returns, and every list node anywhere in
\* the finished document, has at least one item; a list in which the
\* resolver meets no list_item_open returns no node.
C30_NoEmptyListNode ==
    /\ \A k \in 1..Len(listLog) :
          /\ \A m \in 1..Len(listLog[k].nodes) :
                /\ listLog[k].nodes[m].type \in ListNodeTypes
                /\ Len(listLog[k].nodes[m].content) >= 1
          /\ HasNoItems(listLog[k].start, listLog[k].listType)
                <=> listLog[k].nodes = <<>>
    /\ status = "done" =>
          \A n \in NodesIn(result) :
              n.type \in ListNodeTypes => Len(n.content) >= 1

C30_ListWithoutItemsYieldsNothing ==
    /\ status = "done"
    /\ tokens = BulletList(Para(Ka))
    /\ result = <<>>
    /\ Len(listLog) = 1
    /\ listLog[1].nodes = <<>>

=============================================================================
